---- MODULE Spec2Model ----
(***************************************************************************)
(* Model of paper-bear's scraping runner.                                  *)
(*                                                                         *)
(*   EthicalScraper (src/src/lib/utils/scraper-core.ts): init, close,      *)
(*   rateLimit, fetchDynamic, fetchStatic, runScraper.                     *)
(*   Run entry points: the API GET handler (src/src/pages/api/scrape.ts)   *)
(*   and the CLI main (scripts/scrape.ts, src/unnamed/part_001).           *)
(*                                                                         *)
(* Every await of the source is a step of the model.  Calls on one         *)
(* EthicalScraper are sequential: a call is started only when pc = "idle". *)
(* Time is the value of Date.now(), in units of delayMs / 2.               *)
(***************************************************************************)
EXTENDS Integers, Sequences, FiniteSets, TLC

VARIABLES
    browser,          \* EthicalScraper.browser: NULL or the id of a launched browser
    context,          \* EthicalScraper.context: NULL or the id of a browser context
    lastRequestTime,  \* EthicalScraper.lastRequestTime, the rate-limit watermark
    now,              \* Date.now()
    browsers,         \* every browser launched so far: "open" or "closed"
    contexts,         \* every context created so far: [browser, state]
    pages,            \* the open pages, oldest first: [context, call]
    pc,               \* position of the call in progress on the scraper
    caller,           \* who awaits fetchDynamic: "runScraper" or "client"
    mode,             \* the fetch in progress: "dynamic" or "static"
    venue,            \* runScraper's argument
    attempt,          \* runScraper's loop counter
    lastError,        \* runScraper's lastError (its message), NULL when null
    page,             \* the page of the fetch in progress (an index of pages), or NULL
    events,           \* the value scrape() resolved to, held while finally runs
    pending,          \* how the inner try block completed: [kind: "return" or "throw", msg]
    sleepMs,          \* duration handed to the setTimeout in progress
    result,           \* the ScrapeResult the last call resolved to, if it was a runScraper
    thrown,           \* message of the exception the last call rejected with, or NoError
    nCalls,           \* number of calls started on the scraper
    lastCall,         \* the method the last call invoked
    attemptLog,       \* per attempt of the last call, if a runScraper: what happened
    backoffLog,       \* the backoff sleeps the last call started
    issuedAt,         \* the instant at which rateLimit() last let a request through
    minGap,           \* the least time between two consecutive requests, at most delayMs
    history,          \* per runScraper call the run has collected: did an attempt's fetch
                      \* and scrape() complete, and the events of its last attempt
    entry,            \* who drives the scraper: "client", "GET" or "main"
    rpc,              \* position of the run entry point
    vi,               \* index of the venue the run loop is at
    results,          \* report.results of the run
    errors,           \* report.errors of the GET handler
    closeCalls,       \* number of scraper.close() invocations by the run
    runFault,         \* the exception the run's try block ended with, NULL if none
    scrapeLog,        \* rows of the ScrapeLog table
    dbEvents,         \* rows of the Event table, in insertion order: [venueId, hash]
    normalizedEvents, \* report.normalizedEvents of the CLI main
    response,         \* how the run ended: "none", "200", "500", "resolved" or "rejected"
    today,            \* new Date(): the instant of the run, in minutes since 1970-01-01T00:00Z
    systemTz,         \* the time zone of the process (TZ), which local Date fields follow
    fn,               \* the pure function under study, "none" in a run
    fnIn,             \* its arguments
    fnOut,            \* what it returned, once applied
    runNo,            \* the number of the run in progress against the store
    ingested,         \* the scrape results whose events the GET handler has stored,
                      \* duplicates apart: [run, venueId, events]
    plug,             \* a venue plugin's scrape(page) in progress: the site it reads, its
                      \* position, its locals and the page's navigation history
    flights           \* the fetch calls that share the scraper concurrently: per call its
                      \* position in rateLimit and its timer

scraperVars == <<browser, context, lastRequestTime>>
worldVars   == <<now, browsers, contexts, pages>>
callVars    == <<pc, caller, mode, venue, attempt, lastError, page, events, pending, sleepMs>>
outVars     == <<result, thrown>>
logVars     == <<nCalls, lastCall, attemptLog, backoffLog, issuedAt, minGap>>
runVars     == <<entry, rpc, vi, results, errors, closeCalls, runFault,
                 scrapeLog, dbEvents, normalizedEvents, response, history>>
auxVars     == <<today, systemTz, fn, fnIn, fnOut, plug, flights>>
storeVars   == <<runNo, ingested>>
vars        == <<scraperVars, worldVars, callVars, outVars, logVars, runVars, auxVars, storeVars>>

NULL      == 0            \* a null handle (browser, context, page)
NoError   == "<null>"      \* lastError = null; no exception
Undefined == "<undefined>" \* an absent optional string

----------------------------------------------------------------------------
(* Configuration: DEFAULT_CONFIG *)

delayMs    == 2      \* config.delayMs, in model time units
maxRetries == 3      \* config.maxRetries

(* Bounds of the model *)
MaxCalls     == 3    \* calls a client makes on one EthicalScraper
MaxEvents    == 2    \* length of the list a scrape() returns
MaxJitter    == 1    \* longest time a timer fires after it is due
MaxTime      == 16   \* horizon of the clock

Epoch == delayMs + 1 \* Date.now() when the scraper is constructed

RECURSIVE Pow2(_)
Pow2(n) == IF n <= 0 THEN 1 ELSE 2 * Pow2(n - 1)

----------------------------------------------------------------------------
(* The venues.  getEnabledVenues() filters the registry by `enabled`; a     *)
(* client of EthicalScraper may hand runScraper any VenueScraper.           *)

RickshawTheatre ==
    [id |-> "rickshaw-theatre", name |-> "Rickshaw Theatre",
     url |-> "https://rickshawtheatre.com/", enabled |-> TRUE]
RioTheatre ==
    [id |-> "rio-theatre", name |-> "Rio Theatre",
     url |-> "https://riotheatre.ca/calendar/", enabled |-> TRUE]
DisabledVenue ==
    [id |-> "park-theatre", name |-> "Park Theatre",
     url |-> "https://parktheatre.ca/events/", enabled |-> FALSE]

venues == <<RickshawTheatre, RioTheatre>>

RECURSIVE SelectEnabled(_)
SelectEnabled(vs) ==
    IF vs = <<>> THEN <<>>
    ELSE IF Head(vs).enabled THEN <<Head(vs)>> \o SelectEnabled(Tail(vs))
    ELSE SelectEnabled(Tail(vs))

getEnabledVenues == SelectEnabled(venues)

ClientVenues == {RickshawTheatre, DisabledVenue}

(* What a venue's scrape() may resolve to: lists of RawEvent, repetitions    *)
(* included.  dateRaw "" is a listing without a date.                         *)
RawEvents ==
    { [title |-> <<"C", "o", "n", "c", "e", "r", "t">>,
       dateRaw |-> <<[t |-> "num", v |-> 2024], [t |-> "-", v |-> 0], [t |-> "num", v |-> 1],
                     [t |-> "-", v |-> 0], [t |-> "num", v |-> 12]>>,
       doorsRaw |-> <<>>],
      [title |-> <<"F", "i", "l", "m", " ", "N", "i", "g", "h", "t">>,
       dateRaw |-> <<>>, doorsRaw |-> <<>>] }

EventLists == UNION { [1..n -> RawEvents] : n \in 0..MaxEvents }

(* Messages of the exceptions the awaited calls reject with. *)
NotInitializedMsg == "EthicalScraper not initialized. Call init() first."
NewPageMsg        == "browserContext.newPage: Target closed"
GotoMsg           == "page.goto: Timeout 30000ms exceeded."
ContentMsg        == "page.content: Execution context was destroyed"
PageCloseMsg      == "page.close: Connection closed"
HttpMsg           == "HTTP 503: Service Unavailable"
LaunchMsg         == "browserType.launch: Executable doesn't exist"
NewContextMsg     == "browser.newContext: Target closed"
ContextCloseMsg   == "browserContext.close: Connection closed"
BrowserCloseMsg   == "browser.close: Connection closed"
DbMsg             == "SQLITE_BUSY: database is locked"
ScrapeMsgs        == {"", "page.waitForSelector: Timeout 15000ms exceeded."}

----------------------------------------------------------------------------
(* Pure parts of EthicalScraper *)

(* rateLimit: remaining = delayMs - (now - lastRequestTime) *)
Remaining(t, last) == delayMs - (t - last)

(* a faulty rateLimit that records the instant before the wait *)
WatermarkBeforeWait(before, after) == before

(* rateLimit: the value written to lastRequestTime after the wait, *)
(* given Date.now() before the wait and Date.now() after it        *)
Watermark(before, after) == after

(* a faulty loop condition that stops one attempt early *)
LoopCondStrict(a) == a < maxRetries

(* runScraper: the loop condition attempt <= maxRetries *)
LoopCond(a) == a <= maxRetries

(* a faulty guard that backs off after the last attempt too *)
RetriesLeftAlways(a) == TRUE

(* runScraper: the guard of the backoff, attempt < maxRetries *)
RetriesLeft(a) == a < maxRetries

(* a faulty backoff whose exponent is the attempt number *)
BackoffMsNextPower(a) == delayMs * Pow2(a)

(* runScraper: backoffMs = delayMs * Math.pow(2, attempt - 1) *)
BackoffMs(a) == delayMs * Pow2(a - 1)

(* a faulty error result that passes the message on as it is *)
ErrorMessageNoFallback(err) == err

(* runScraper: errorMessage: lastError?.message || 'Unknown error' *)
ErrorMessage(err) == IF err = NoError \/ err = "" THEN "Unknown error" ELSE err

SkippedResult(v) == [venueId |-> v.id, status |-> "skipped", events |-> <<>>, errorMessage |-> Undefined]
SuccessResult(v, evs) == [venueId |-> v.id, status |-> "success", events |-> evs, errorMessage |-> Undefined]
ErrorResult(v, err) == [venueId |-> v.id, status |-> "error", events |-> <<>>, errorMessage |-> ErrorMessage(err)]

----------------------------------------------------------------------------
(* Dates.  An instant (a JavaScript Date) is its number of minutes since     *)
(* 1970-01-01T00:00Z.  A wall-clock time is the number of minutes from       *)
(* 1970-01-01 00:00 to the civil date and time it shows.                     *)

(* days from 1970-01-01 to day doy (from 0, March 1 being day 0) of the *)
(* year yy that starts in March                                         *)
DaysOfMarchYear(yy, doy) ==
    (yy \div 400) * 146097
      + ((yy % 400) * 365 + (yy % 400) \div 4 - (yy % 400) \div 100 + doy) - 719468

(* days from 1970-01-01 to the civil date y-m-d *)
DaysFromCivil(y, m, d) ==
    DaysOfMarchYear(IF m <= 2 THEN y - 1 ELSE y, (153 * ((m + 9) % 12) + 2) \div 5 + d - 1)

(* the civil date of day doy of the year y that starts in March, mp its month from March *)
CivilOfMonth(y, mp, doy) ==
    [y |-> IF mp < 10 THEN y ELSE y + 1,
     m |-> IF mp < 10 THEN mp + 3 ELSE mp - 9,
     d |-> doy - (153 * mp + 2) \div 5 + 1]

CivilOfDay(y, doy) == CivilOfMonth(y, (5 * doy + 2) \div 153, doy)

CivilOfYear(era, yoe, doe) ==
    CivilOfDay(yoe + era * 400, doe - (365 * yoe + yoe \div 4 - yoe \div 100))

CivilOfEra(era, doe) ==
    CivilOfYear(era, (doe - doe \div 1460 + doe \div 36524 - doe \div 146096) \div 365, doe)

(* the civil date of the day z days after 1970-01-01 *)
CivilFromDays(z) == CivilOfEra((z + 719468) \div 146097, (z + 719468) % 146097)

IsLeapYear(y) == (y % 4 = 0 /\ y % 100 # 0) \/ y % 400 = 0

DaysInMonth(y, m) ==
    IF m = 2 THEN (IF IsLeapYear(y) THEN 29 ELSE 28)
    ELSE IF m \in {4, 6, 9, 11} THEN 30 ELSE 31

(* the wall-clock time of a civil date and time *)
Wall(y, m, d, h, mi) == DaysFromCivil(y, m, d) * 1440 + h * 60 + mi

FieldsOf(c, w) == [y |-> c.y, m |-> c.m, d |-> c.d, h |-> (w % 1440) \div 60, mi |-> w % 60]

(* the civil date and time a wall-clock time shows *)
Fields(w) == FieldsOf(CivilFromDays(w \div 1440), w)

(* day d of the first Sunday of month m of year y; 1970-01-01 was a Thursday *)
FirstSunday(y, m) == 1 + ((7 - ((DaysFromCivil(y, m, 1) + 4) % 7)) % 7)

(* America/Vancouver: daylight-saving time runs from the second Sunday of   *)
(* March, 02:00 PST (10:00Z), to the first Sunday of November, 02:00 PDT    *)
(* (09:00Z).  The offset is what is added to UTC to get the local time.     *)
OffsetInYear(y, t) ==
    IF Wall(y, 3, FirstSunday(y, 3) + 7, 10, 0) <= t /\ t < Wall(y, 11, FirstSunday(y, 11), 9, 0)
      THEN 0 - 420 ELSE 0 - 480

VancouverOffset(t) == OffsetInYear(CivilFromDays(t \div 1440).y, t)

(* a faulty conversion that applies the standard-time offset on every date *)
VancouverToInstantFixed(w) == w + 480

(* the instant at which Vancouver's wall clocks show w (fromZonedTime).  In *)
(* the hour repeated in November the first instant is meant; a time skipped *)
(* in March is read with the offset of the winter.                          *)
VancouverToInstant(w) ==
    IF VancouverOffset(w + 420) = 0 - 420 THEN w + 420 ELSE w + 480

SystemZones == {"UTC", "America/Vancouver"}

(* what the clocks of the process's time zone show at instant t: the fields *)
(* getFullYear(), getMonth(), getDate(), getHours(), getMinutes() read      *)
LocalWall(tz, t) == IF tz = "UTC" THEN t ELSE t + VancouverOffset(t)

(* the Date whose local fields are those of w: new Date(y, m, d, h, mi) *)
LocalToInstant(tz, w) == IF tz = "UTC" THEN w ELSE VancouverToInstant(w)

(* fromZonedTime(date, 'America/Vancouver'): the local fields of date, read *)
(* as Vancouver wall-clock time                                              *)
fromZonedTime(tz, date) == VancouverToInstant(LocalWall(tz, date))

(* date.toISOString().split('T')[0]: the UTC day, as its civil date *)
ISODay(date) == CivilFromDays(date \div 1440)

----------------------------------------------------------------------------
NoResult == [venueId |-> Undefined, status |-> "none", events |-> <<>>, errorMessage |-> Undefined]

ScraperInit ==
    /\ browser = NULL /\ context = NULL /\ lastRequestTime = 0
    /\ now = Epoch
    /\ browsers = <<>> /\ contexts = <<>> /\ pages = <<>>
    /\ pc = "idle" /\ caller = "client" /\ mode = "dynamic" /\ venue = RickshawTheatre
    /\ attempt = 0 /\ lastError = NoError /\ page = NULL
    /\ events = <<>> /\ pending = [kind |-> "return", msg |-> NoError] /\ sleepMs = 0
    /\ result = NoResult /\ thrown = NoError
    /\ nCalls = 0 /\ lastCall = "constructor" /\ attemptLog = <<>> /\ backoffLog = <<>> /\ issuedAt = 0 /\ minGap = delayMs
    /\ vi = 1 /\ results = <<>> /\ errors = <<>> /\ closeCalls = 0 /\ runFault = NoError
    /\ scrapeLog = <<>> /\ dbEvents = <<>> /\ normalizedEvents = <<>>
    /\ response = "none" /\ history = <<>>
    /\ runNo = 1 /\ ingested = {}

(* A client of the class holds a freshly constructed EthicalScraper. *)
(* the instant of the runs of Spec and RunSpec: 2024-01-10T20:00Z *)
RunInstant == Wall(2024, 1, 10, 20, 0)

(* no plugin's scrape is under study *)
NoPlugin ==
    [name |-> "none", site |-> <<>>, pc |-> "none", i |-> 0, dedupedEvents |-> <<>>,
     enrichedEvents |-> <<>>, nav |-> <<>>]

(* no concurrent fetch calls are under study *)
NoFlights == <<>>

(* no pure function is under study *)
FnIdle ==
    fn = "none" /\ fnIn = <<>> /\ fnOut = <<>> /\ plug = NoPlugin /\ flights = NoFlights

Init ==
    /\ ScraperInit /\ entry = "client" /\ rpc = "client"
    /\ today = RunInstant /\ systemTz = "UTC" /\ FnIdle

----------------------------------------------------------------------------
(* The browser world *)

RECURSIVE Keep(_, _)
(* the pages of ps whose context is not in ctxs *)
Keep(ps, ctxs) ==
    IF ps = <<>> THEN <<>>
    ELSE IF Head(ps).context \in ctxs THEN Keep(Tail(ps), ctxs)
    ELSE <<Head(ps)>> \o Keep(Tail(ps), ctxs)

(* ps without its i-th page *)
Without(ps, i) == SubSeq(ps, 1, i - 1) \o SubSeq(ps, i + 1, Len(ps))

ContextsOf(b) == {c \in DOMAIN contexts : contexts[c].browser = b}

(* pages opened by the call in progress (or the last one) that are open *)
OpenPagesOfCall == {p \in DOMAIN pages : pages[p].call = nCalls}

Min(a, b) == IF a < b THEN a ELSE b

(* a request is issued at instant t *)
Issue(t) ==
    /\ issuedAt' = t
    /\ minGap' = IF issuedAt = 0 THEN minGap ELSE Min(minGap, t - issuedAt)

----------------------------------------------------------------------------
(* EthicalScraper.init, as one step: chromium.launch, then browser.newContext *)
InitBody(outcome) ==
    /\ outcome \in {"ok", "launch throws", "newContext throws"}
    /\ IF outcome = "launch throws"
         THEN /\ thrown' = LaunchMsg
              /\ UNCHANGED <<browser, context, browsers, contexts>>
         ELSE /\ browsers' = Append(browsers, "open")
              /\ browser' = Len(browsers) + 1
              /\ IF outcome = "newContext throws"
                   THEN /\ thrown' = NewContextMsg
                        /\ UNCHANGED <<context, contexts>>
                   ELSE /\ contexts' = Append(contexts, [browser |-> Len(browsers) + 1, state |-> "open"])
                        /\ context' = Len(contexts) + 1
                        /\ thrown' = NoError
    /\ UNCHANGED <<lastRequestTime, now, pages>>

(* a faulty close that leaves the field as it was *)
ClearedKept(ref) == ref

(* close: this.browser = null; this.context = null *)
Cleared(ref) == NULL

(* EthicalScraper.close, as one step: context.close, browser.close, then the resets. *)
(* Closing a context closes its pages; closing a browser closes its contexts.        *)
CloseBody(outcome) ==
    /\ outcome \in {"ok", "context.close throws", "browser.close throws"}
    /\ outcome = "context.close throws" => context # NULL
    /\ outcome = "browser.close throws" => browser # NULL
    /\ IF outcome = "context.close throws"
         THEN /\ thrown' = ContextCloseMsg
              /\ UNCHANGED <<browser, context, browsers, contexts, pages>>
         ELSE LET ctxs1 == IF context # NULL
                             THEN [contexts EXCEPT ![context].state = "closed"]
                             ELSE contexts
                  pgs1  == IF context # NULL THEN Keep(pages, {context}) ELSE pages
              IN  IF outcome = "browser.close throws"
                    THEN /\ thrown' = BrowserCloseMsg
                         /\ contexts' = ctxs1 /\ pages' = pgs1
                         /\ UNCHANGED <<browser, context, browsers>>
                    ELSE /\ thrown' = NoError
                         /\ browsers' = IF browser # NULL
                                          THEN [browsers EXCEPT ![browser] = "closed"]
                                          ELSE browsers
                         /\ contexts' = [c \in DOMAIN ctxs1 |->
                                           IF browser # NULL /\ ctxs1[c].browser = browser
                                             THEN [ctxs1[c] EXCEPT !.state = "closed"]
                                             ELSE ctxs1[c]]
                         /\ pages' = IF browser # NULL
                                       THEN Keep(pgs1, ContextsOf(browser))
                                       ELSE pgs1
                         /\ browser' = Cleared(browser) /\ context' = Cleared(context)
    /\ UNCHANGED <<lastRequestTime, now>>

----------------------------------------------------------------------------
(* EthicalScraper.runScraper *)

(* wait: what rateLimit slept; events: the list scrape() resolved to, until the *)
(* attempt fails; error: the message of the exception the catch block caught   *)
NewAttempt == [wait |-> 0, fetch |-> "pending", scrape |-> "pending", close |-> "pending",
               events |-> <<>>, error |-> NoError]

Mark(log, f, v) == [log EXCEPT ![Len(log)] = [@ EXCEPT ![f] = v]]

NoPending == [kind |-> "return", msg |-> NoError]

(* the call in progress is over: its locals are gone *)
Gone ==
    /\ pc' = "idle"
    /\ caller' = "client" /\ mode' = "dynamic"
    /\ attempt' = 0 /\ lastError' = NoError /\ page' = NULL
    /\ events' = <<>> /\ pending' = NoPending /\ sleepMs' = 0
    /\ UNCHANGED venue

(* runScraper resolves to res *)
Return(res) == Gone /\ result' = res /\ UNCHANGED thrown

(* a fetch called by the client rejects with msg, or resolves (NoError) *)
Reject(msg) == Gone /\ thrown' = msg /\ UNCHANGED result

(* attempt++ and the loop condition: the next attempt, or the error result *)
Iterate(err) ==
    IF LoopCond(attempt + 1)
      THEN /\ attempt' = attempt + 1
           /\ lastError' = err
           /\ pc' = "fetchDynamic"
           /\ page' = NULL
           /\ UNCHANGED <<caller, mode, venue, events, pending, sleepMs, result, thrown>>
      ELSE Return(ErrorResult(venue, err))

(* the catch block: record the error, then back off or go round the loop; *)
(* log is the attempt log with what the attempt did before it threw        *)
Catch(msg, log) ==
    /\ attemptLog' = Mark(log, "error", msg)
    /\ IF RetriesLeft(attempt)
      THEN /\ lastError' = msg
           /\ page' = NULL
           /\ sleepMs' = BackoffMs(attempt)
           /\ backoffLog' = Append(backoffLog, BackoffMs(attempt))
           /\ pc' = "backoff"
           /\ UNCHANGED <<caller, mode, venue, attempt, events, pending, result, thrown>>
      ELSE /\ Iterate(msg)
           /\ UNCHANGED backoffLog

(* an exception inside fetchDynamic: it reaches runScraper's catch block, *)
(* or the client that called the fetch                                     *)
Throw(msg) ==
    IF caller = "runScraper"
      THEN Catch(msg, Mark(attemptLog, "fetch", "threw"))
      ELSE /\ Reject(msg)
           /\ UNCHANGED <<attemptLog, backoffLog>>

(* some attempt's fetch and scrape() both completed without exception *)
Extracted(log) == \E i \in DOMAIN log : log[i].fetch = "ok" /\ log[i].scrape = "ok"

(* a faulty runScraper that never looks at the enabled flag *)
SkipsNever(v) == FALSE

(* runScraper: if (!venue.enabled) *)
Skips(v) == ~v.enabled

(* the call of runScraper(v), up to its first await *)
RunScraperCall(v) ==
    /\ pc = "idle"
    /\ nCalls' = nCalls + 1 /\ lastCall' = "runScraper"
    /\ venue' = v
    /\ attemptLog' = <<>> /\ backoffLog' = <<>>
    /\ thrown' = NoError
    /\ IF Skips(v)
         THEN /\ result' = SkippedResult(v)
              /\ UNCHANGED <<pc, caller, mode, attempt, lastError, page, events, pending, sleepMs>>
         ELSE IF LoopCond(1)
           THEN /\ pc' = "fetchDynamic"
                /\ caller' = "runScraper" /\ mode' = "dynamic"
                /\ attempt' = 1
                /\ lastError' = NoError
                /\ result' = NoResult
                /\ UNCHANGED <<page, events, pending, sleepMs>>
           ELSE /\ result' = ErrorResult(v, NoError)
                /\ UNCHANGED <<pc, caller, mode, attempt, lastError, page, events, pending, sleepMs>>
    /\ UNCHANGED <<scraperVars, worldVars, issuedAt, minGap>>

(* rateLimit up to its await: no wait when delayMs has elapsed *)
RateLimitEnter(m) ==
    LET remaining == Remaining(now, lastRequestTime) IN
    /\ mode' = m
    /\ IF remaining > 0
         THEN /\ pc' = "rateLimit"
              /\ sleepMs' = remaining
              /\ UNCHANGED <<lastRequestTime, issuedAt, minGap>>
         ELSE /\ pc' = IF m = "dynamic" THEN "newPage" ELSE "fetch"
              /\ lastRequestTime' = Watermark(now, now)
              /\ Issue(now)
              /\ UNCHANGED sleepMs
    /\ attemptLog' = IF caller = "runScraper"
                       THEN Append(attemptLog, [NewAttempt EXCEPT !.wait = IF remaining > 0 THEN remaining ELSE 0])
                       ELSE attemptLog

(* fetchDynamic up to its first await: the context check, then rateLimit *)
FetchDynamicStart ==
    /\ pc = "fetchDynamic"
    /\ IF context = NULL
         THEN /\ IF caller = "runScraper"
                   THEN Catch(NotInitializedMsg,
                              Append(attemptLog, [NewAttempt EXCEPT !.fetch = "not initialized"]))
                   ELSE /\ Reject(NotInitializedMsg)
                        /\ UNCHANGED <<attemptLog, backoffLog>>
              /\ UNCHANGED <<lastRequestTime, issuedAt, minGap>>
         ELSE /\ RateLimitEnter("dynamic")
              /\ UNCHANGED <<caller, venue, attempt, lastError, page, events, pending,
                             result, thrown, backoffLog>>
    /\ UNCHANGED <<browser, context, worldVars, nCalls, lastCall, runVars>>
    /\ UNCHANGED <<auxVars, storeVars>>

(* rateLimit after its await: the timer fired, the watermark is written *)
RateLimitWake ==
    /\ pc = "rateLimit"
    /\ \E over \in 0..MaxJitter :
          /\ now + sleepMs + over <= MaxTime
          /\ now' = now + sleepMs + over
          /\ lastRequestTime' = Watermark(now, now + sleepMs + over)
          /\ Issue(now + sleepMs + over)
    /\ pc' = IF mode = "dynamic" THEN "newPage" ELSE "fetch"
    /\ UNCHANGED <<browser, context, browsers, contexts, pages,
                   caller, mode, venue, attempt, lastError, page, events, pending, sleepMs,
                   outVars, nCalls, lastCall, attemptLog, backoffLog, runVars>>
    /\ UNCHANGED <<auxVars, storeVars>>

(* a faulty fetchDynamic that opens every page in a context of its own *)
NewPageContextFresh(ctx) == ctx + 1

(* fetchDynamic: the context newPage() is called on, this.context *)
NewPageContext(ctx) == ctx

(* fetchDynamic: await this.context.newPage() *)
NewPage ==
    /\ pc = "newPage"
    /\ \/ /\ pages' = Append(pages, [context |-> NewPageContext(context), call |-> nCalls])
          /\ page' = Len(pages) + 1
          /\ pc' = "goto"
          /\ UNCHANGED <<caller, mode, venue, attempt, lastError, events, pending, sleepMs,
                         outVars, attemptLog, backoffLog>>
       \/ /\ Throw(NewPageMsg)
          /\ UNCHANGED pages
    /\ UNCHANGED <<scraperVars, now, browsers, contexts, nCalls, lastCall, issuedAt, minGap, runVars>>
    /\ UNCHANGED <<auxVars, storeVars>>

(* fetchDynamic: await page.goto(url, ...) *)
Goto ==
    /\ pc = "goto"
    /\ \/ /\ pc' = "content"
          /\ UNCHANGED <<caller, mode, venue, attempt, lastError, page, events, pending, sleepMs,
                         outVars, attemptLog, backoffLog>>
       \/ Throw(GotoMsg)
    /\ UNCHANGED <<scraperVars, worldVars, nCalls, lastCall, issuedAt, minGap, runVars>>
    /\ UNCHANGED <<auxVars, storeVars>>

(* fetchDynamic: await page.content(), then return {page, html} *)
Content ==
    /\ pc = "content"
    /\ \/ IF caller = "runScraper"
            THEN /\ pc' = "scrape"
                 /\ attemptLog' = Mark(attemptLog, "fetch", "ok")
                 /\ UNCHANGED <<caller, mode, venue, attempt, lastError, page, events, pending,
                                sleepMs, outVars, backoffLog>>
            ELSE /\ Reject(NoError)
                 /\ UNCHANGED <<attemptLog, backoffLog>>
       \/ Throw(ContentMsg)
    /\ UNCHANGED <<scraperVars, worldVars, nCalls, lastCall, issuedAt, minGap, runVars>>
    /\ UNCHANGED <<auxVars, storeVars>>

(* runScraper: await venue.scrape(page, html); the finally block is next *)
Scrape ==
    /\ pc = "scrape"
    /\ \/ \E evs \in EventLists :
            /\ events' = evs
            /\ pending' = [kind |-> "return", msg |-> NoError]
            /\ attemptLog' = Mark(Mark(attemptLog, "scrape", "ok"), "events", evs)
       \/ \E msg \in ScrapeMsgs :
            /\ pending' = [kind |-> "throw", msg |-> msg]
            /\ attemptLog' = Mark(attemptLog, "scrape", "threw")
            /\ UNCHANGED events
    /\ pc' = "pageClose"
    /\ UNCHANGED <<scraperVars, worldVars, caller, mode, venue, attempt, lastError, page, sleepMs,
                   outVars, nCalls, lastCall, backoffLog, issuedAt, minGap, runVars>>
    /\ UNCHANGED <<auxVars, storeVars>>

(* runScraper: the finally block, await page.close(); then the pending return *)
(* or the catch block                                                          *)
PageClose ==
    /\ pc = "pageClose"
    /\ \/ /\ pages' = Without(pages, page)
          /\ IF pending.kind = "return"
               THEN /\ Return(SuccessResult(venue, events))
                    /\ attemptLog' = Mark(attemptLog, "close", "ok")
                    /\ UNCHANGED backoffLog
               ELSE Catch(pending.msg, Mark(attemptLog, "close", "ok"))
       \/ /\ UNCHANGED pages
          /\ Catch(PageCloseMsg, Mark(Mark(attemptLog, "close", "threw"), "events", <<>>))
    /\ UNCHANGED <<scraperVars, now, browsers, contexts, nCalls, lastCall, issuedAt, minGap, runVars>>
    /\ UNCHANGED <<auxVars, storeVars>>

(* runScraper: the backoff timer fired; attempt++ and the loop condition *)
BackoffWake ==
    /\ pc = "backoff"
    /\ \E over \in 0..MaxJitter :
          /\ now + sleepMs + over <= MaxTime
          /\ now' = now + sleepMs + over
    /\ Iterate(lastError)
    /\ UNCHANGED <<scraperVars, browsers, contexts, pages, logVars, runVars>>
    /\ UNCHANGED <<auxVars, storeVars>>

----------------------------------------------------------------------------
(* EthicalScraper.fetchStatic *)

(* fetchStatic up to its first await: rateLimit *)
FetchStaticStart ==
    /\ pc = "fetchStatic"
    /\ RateLimitEnter("static")
    /\ UNCHANGED <<browser, context, worldVars, caller, venue, attempt, lastError, page,
                   events, pending, outVars, nCalls, lastCall, backoffLog, runVars>>
    /\ UNCHANGED <<auxVars, storeVars>>

(* fetchStatic: await fetch(url), the response.ok check, response.text() *)
StaticFetch ==
    /\ pc = "fetch"
    /\ \/ Reject(NoError)
       \/ Reject(HttpMsg)
    /\ UNCHANGED <<scraperVars, worldVars, logVars, runVars>>
    /\ UNCHANGED <<auxVars, storeVars>>

----------------------------------------------------------------------------
(* Time passes while a navigation or an HTTP fetch is awaited.  Once delayMs *)
(* has elapsed since the watermark, more waiting changes nothing.             *)
Tick ==
    /\ pc \in {"goto", "fetch"}
    /\ now - lastRequestTime < delayMs
    /\ now + 1 <= MaxTime
    /\ now' = now + 1
    /\ UNCHANGED <<scraperVars, browsers, contexts, pages, callVars, outVars, logVars, runVars>>
    /\ UNCHANGED <<auxVars, storeVars>>

----------------------------------------------------------------------------
(* A client of the class: sequential calls of the public methods *)

CanCall == entry = "client" /\ pc = "idle" /\ nCalls < MaxCalls

ClientInit ==
    /\ CanCall
    /\ \E outcome \in {"ok", "launch throws", "newContext throws"} : InitBody(outcome)
    /\ nCalls' = nCalls + 1 /\ lastCall' = "init"
    /\ result' = NoResult /\ attemptLog' = <<>> /\ backoffLog' = <<>>
    /\ UNCHANGED <<callVars, issuedAt, minGap, runVars>>
    /\ UNCHANGED <<auxVars, storeVars>>

ClientClose ==
    /\ CanCall
    /\ \E outcome \in {"ok", "context.close throws", "browser.close throws"} : CloseBody(outcome)
    /\ nCalls' = nCalls + 1 /\ lastCall' = "close"
    /\ result' = NoResult /\ attemptLog' = <<>> /\ backoffLog' = <<>>
    /\ UNCHANGED <<callVars, issuedAt, minGap, runVars>>
    /\ UNCHANGED <<auxVars, storeVars>>

ClientRunScraper ==
    /\ CanCall
    /\ \E v \in ClientVenues : RunScraperCall(v)
    /\ UNCHANGED runVars
    /\ UNCHANGED <<auxVars, storeVars>>

ClientFetchDynamic ==
    /\ CanCall
    /\ pc' = "fetchDynamic" /\ caller' = "client" /\ mode' = "dynamic"
    /\ nCalls' = nCalls + 1 /\ lastCall' = "fetchDynamic"
    /\ thrown' = NoError /\ result' = NoResult /\ attemptLog' = <<>> /\ backoffLog' = <<>>
    /\ UNCHANGED <<scraperVars, worldVars, venue, attempt, lastError, page, events, pending,
                   sleepMs, issuedAt, minGap, runVars>>
    /\ UNCHANGED <<auxVars, storeVars>>

ClientFetchStatic ==
    /\ CanCall
    /\ pc' = "fetchStatic" /\ caller' = "client" /\ mode' = "static"
    /\ nCalls' = nCalls + 1 /\ lastCall' = "fetchStatic"
    /\ thrown' = NoError /\ result' = NoResult /\ attemptLog' = <<>> /\ backoffLog' = <<>>
    /\ UNCHANGED <<scraperVars, worldVars, venue, attempt, lastError, page, events, pending,
                   sleepMs, issuedAt, minGap, runVars>>
    /\ UNCHANGED <<auxVars, storeVars>>

(* time passes between two calls; once delayMs has elapsed since the  *)
(* watermark, more waiting changes nothing                             *)
ClientWait ==
    /\ entry = "client" /\ pc = "idle"
    /\ 0 < nCalls /\ nCalls < MaxCalls
    /\ now - lastRequestTime < delayMs
    /\ now + 1 <= MaxTime
    /\ now' = now + 1
    /\ UNCHANGED <<scraperVars, browsers, contexts, pages, callVars, outVars, logVars, runVars>>
    /\ UNCHANGED <<auxVars, storeVars>>

ScraperStep ==
    \/ FetchDynamicStart
    \/ RateLimitWake
    \/ NewPage
    \/ Goto
    \/ Content
    \/ Scrape
    \/ PageClose
    \/ BackoffWake

Next ==
    \/ ClientInit
    \/ ClientClose
    \/ ClientRunScraper
    \/ ClientFetchDynamic
    \/ ClientFetchStatic
    \/ ClientWait
    \/ FetchStaticStart
    \/ StaticFetch
    \/ Tick
    \/ ScraperStep

Spec == Init /\ [][Next]_vars

----------------------------------------------------------------------------
(* Date strings.  A string is the sequence of its tokens, white space left   *)
(* out: a day name, a full or abbreviated month name, a number, a number     *)
(* with an ordinal suffix, am or pm (v = 0 or 1), a punctuation mark, one of *)
(* the words "doors", "show" and "at", or any other word.  A value that is   *)
(* not a string (undefined, null, a number) is NotAString.                   *)

Tok(t, v) == [t |-> t, v |-> v]
Dow(n)    == Tok("dow", n)
Month(n)  == Tok("month", n)
Mon(n)    == Tok("mon", n)
Num(n)    == Tok("num", n)
Ord(n)    == Tok("ord", n)
Comma     == Tok(",", 0)
Colon     == Tok(":", 0)
Dash      == Tok("-", 0)
AtSign    == Tok("@", 0)
AtWord    == Tok("at", 0)
AM        == Tok("ampm", 0)
PM        == Tok("ampm", 1)
Doors     == Tok("doors", 0)
Show      == Tok("show", 0)
Word      == Tok("word", 0)

NotAString == <<Tok("undefined", 0)>>

(* the result null of parseVancouverDate; an instant is never negative here *)
NoDate == 0 - 1

(* DATE_FORMATS, in the order they are tried *)
DATE_FORMATS == <<
    <<"EEEE", ",", "MMMM", "d", ",", "yyyy", "h", ":", "mm", "a">>,
    <<"MMMM", "d", ",", "yyyy", "h", ":", "mm", "a">>,
    <<"MMM", "d", ",", "yyyy", "h", ":", "mm", "a">>,
    <<"MMMM", "d", ",", "yyyy">>,
    <<"MMM", "d", ",", "yyyy">>,
    <<"yyyy", "-", "MM", "-", "dd", "HH", ":", "mm">>,
    <<"yyyy", "-", "MM", "-", "dd">>,
    <<"EEEE", ",", "MMMM", "d", "h", ":", "mm", "a">>,
    <<"EEEE", "MMMM", "d", "h", ":", "mm", "a">>,
    <<"MMMM", "d", "h", ":", "mm", "a">>,
    <<"MMM", "d", "h", ":", "mm", "a">>,
    <<"EEEE", ",", "MMMM", "d">>,
    <<"MMMM", "d">>,
    <<"MMM", "d">>,
    <<"h", ":", "mm", "a">>,
    <<"h", "a">>,
    <<"h", "a">> >>

(* raw.trim()...replace(...): ordinal suffixes go, and so do "doors" and  *)
(* "show" with an "@", "at" or ":" that follows them; white space, dots   *)
(* and letter case are not part of a token sequence                       *)
RECURSIVE NormalizeInput(_)
NormalizeInput(raw) ==
    IF raw = <<>> THEN <<>>
    ELSE LET tk == Head(raw)
         IN  IF tk.t \in {"doors", "show"}
               THEN IF Len(raw) >= 2 /\ raw[2].t \in {"@", "at", ":"}
                      THEN NormalizeInput(Tail(Tail(raw)))
                      ELSE NormalizeInput(Tail(raw))
             ELSE IF tk.t = "ord" THEN <<Num(tk.v)>> \o NormalizeInput(Tail(raw))
             ELSE <<tk>> \o NormalizeInput(Tail(raw))

(* one field of a format read from one token: the parsers of date-fns and *)
(* the ranges they validate                                               *)
TokenMatches(f, tk) ==
    CASE f = "EEEE" -> tk.t = "dow"
      [] f = "MMMM" -> tk.t \in {"month", "mon"}
      [] f = "MMM"  -> tk.t = "mon"
      [] f = "MM"   -> tk.t = "num" /\ tk.v \in 1..12
      [] f \in {"d", "dd"} -> tk.t = "num" /\ tk.v \in 1..31
      [] f = "yyyy" -> tk.t = "num" /\ tk.v \in 0..9999
      [] f = "h"    -> tk.t = "num" /\ tk.v \in 1..12
      [] f = "HH"   -> tk.t = "num" /\ tk.v \in 0..23
      [] f = "mm"   -> tk.t = "num" /\ tk.v \in 0..59
      [] f = "a"    -> tk.t = "ampm"
      [] OTHER      -> tk.t = f

HasField(fmt, fs) == \E i \in DOMAIN fmt : fmt[i] \in fs

FieldValue(fmt, toks, fs) == toks[CHOOSE i \in DOMAIN fmt : fmt[i] \in fs].v

(* parse(normalized, fmt, referenceDate): the local wall-clock time read, *)
(* fields the format lacks taken from the local fields of referenceDate   *)
(* (date) or zero (time); the day of the week does not change the date    *)
ParsedWall(fmt, toks, ref) ==
    LET y  == IF HasField(fmt, {"yyyy"}) THEN FieldValue(fmt, toks, {"yyyy"}) ELSE ref.y
        m  == IF HasField(fmt, {"MMMM", "MMM", "MM"})
                THEN FieldValue(fmt, toks, {"MMMM", "MMM", "MM"}) ELSE ref.m
        d  == IF HasField(fmt, {"d", "dd"}) THEN FieldValue(fmt, toks, {"d", "dd"}) ELSE ref.d
        h  == IF HasField(fmt, {"h"})
                THEN (FieldValue(fmt, toks, {"h"}) % 12) + 12 * FieldValue(fmt, toks, {"a"})
              ELSE IF HasField(fmt, {"HH"}) THEN FieldValue(fmt, toks, {"HH"}) ELSE 0
        mi == IF HasField(fmt, {"mm"}) THEN FieldValue(fmt, toks, {"mm"}) ELSE 0
    IN  [y |-> y, m |-> m, d |-> d, h |-> h, mi |-> mi]

(* isValid(parse(normalized, fmt, referenceDate)) *)
FormatMatches(fmt, toks, ref) ==
    /\ Len(toks) = Len(fmt)
    /\ \A i \in DOMAIN fmt : TokenMatches(fmt[i], toks[i])
    /\ LET w == ParsedWall(fmt, toks, ref) IN w.d <= DaysInMonth(w.y, w.m)

(* the Date of local fields *)
ToDate(tz, w) == LocalToInstant(tz, Wall(w.y, w.m, w.d, w.h, w.mi))

SameFieldsNextYear(tz, f) ==
    ToDate(tz, [f EXCEPT !.y = f.y + 1, !.d = Min(f.d, DaysInMonth(f.y + 1, f.m))])

(* addYears(date, 1): the same local fields a year later, the 29th of *)
(* February becoming the 28th                                          *)
addYears(tz, date) == SameFieldsNextYear(tz, Fields(LocalWall(tz, date)))

(* setYear(date, year): the local fields of date with the year replaced *)
setYear(tz, date, year) == ToDate(tz, [Fields(LocalWall(tz, date)) EXCEPT !.y = year])

AdvanceIfBefore(tz, inYear, twoWeeksAgo) ==
    IF inYear < twoWeeksAgo THEN addYears(tz, inYear) ELSE inYear

(* inferYear: the date in the reference year, or a year later when it is *)
(* before the instant 14 local days before referenceDate                  *)
inferYear(tz, date, referenceDate) ==
    AdvanceIfBefore(tz, setYear(tz, date, Fields(LocalWall(tz, referenceDate)).y),
                    LocalToInstant(tz, LocalWall(tz, referenceDate) - 14 * 1440))

(* the index of the first format of DATE_FORMATS that parses, or 0 *)
FirstFormat(toks, ref) ==
    IF \E k \in DOMAIN DATE_FORMATS : FormatMatches(DATE_FORMATS[k], toks, ref)
      THEN CHOOSE k \in DOMAIN DATE_FORMATS :
              /\ FormatMatches(DATE_FORMATS[k], toks, ref)
              /\ \A j \in 1..(k - 1) : ~FormatMatches(DATE_FORMATS[j], toks, ref)
      ELSE 0

(* a faulty parser that returns the reference instant for what it cannot parse *)
ParseFailureNow(referenceDate) == referenceDate

(* what parseVancouverDate returns when no format parses *)
ParseFailure(referenceDate) == NoDate

(* lines 92-98: the year inferred unless the format had one, then fromZonedTime *)
ZonedResult(tz, parsed, usedFormatWithYear, referenceDate) ==
    fromZonedTime(tz, IF usedFormatWithYear THEN parsed
                      ELSE inferYear(tz, parsed, referenceDate))

(* the outcome of the loop over DATE_FORMATS, k the first format that parses *)
ParsedBy(tz, k, normalized, ref, referenceDate) ==
    IF k = 0 THEN ParseFailure(referenceDate)
    ELSE ZonedResult(tz, ToDate(tz, ParsedWall(DATE_FORMATS[k], normalized, ref)),
                     HasField(DATE_FORMATS[k], {"yyyy"}), referenceDate)

ParseNormalized(tz, normalized, ref, referenceDate) ==
    ParsedBy(tz, FirstFormat(normalized, ref), normalized, ref, referenceDate)

(* parseVancouverDate(raw, referenceDate) in a process whose time zone is tz *)
parseVancouverDate(tz, raw, referenceDate) ==
    IF raw = <<>> \/ raw = NotAString THEN ParseFailure(referenceDate)
    ELSE ParseNormalized(tz, NormalizeInput(raw), Fields(LocalWall(tz, referenceDate)),
                         referenceDate)

----------------------------------------------------------------------------
(* Normalization, over the strings of RawEvents *)

(* Titles.  A title is the sequence of its characters. *)

WhiteSpace == {" ", "\t"}

(* toLowerCase() of one character *)
LowerChar(c) ==
    CASE c = "A" -> "a" [] c = "B" -> "b" [] c = "C" -> "c" [] c = "D" -> "d" [] c = "E" -> "e"
      [] c = "F" -> "f" [] c = "G" -> "g" [] c = "H" -> "h" [] c = "I" -> "i" [] c = "J" -> "j"
      [] c = "K" -> "k" [] c = "L" -> "l" [] c = "M" -> "m" [] c = "N" -> "n" [] c = "O" -> "o"
      [] c = "P" -> "p" [] c = "Q" -> "q" [] c = "R" -> "r" [] c = "S" -> "s" [] c = "T" -> "t"
      [] c = "U" -> "u" [] c = "V" -> "v" [] c = "W" -> "w" [] c = "X" -> "x" [] c = "Y" -> "y"
      [] c = "Z" -> "z"
      [] OTHER -> c

(* a faulty title normalization that keeps the case of the letters *)
ToLowerCaseKeep(title) == title

ToLowerCase(title) == [i \in DOMAIN title |-> LowerChar(title[i])]

RECURSIVE TrimStart(_)
TrimStart(str) ==
    IF str # <<>> /\ Head(str) \in WhiteSpace THEN TrimStart(Tail(str)) ELSE str

RECURSIVE TrimEnd(_)
TrimEnd(str) ==
    IF str # <<>> /\ str[Len(str)] \in WhiteSpace
      THEN TrimEnd(SubSeq(str, 1, Len(str) - 1)) ELSE str

Trim(str) == TrimEnd(TrimStart(str))

(* str.replace(/\s+/g, ' ') *)
RECURSIVE CollapseWhiteSpace(_)
CollapseWhiteSpace(str) ==
    IF str = <<>> THEN <<>>
    ELSE IF Head(str) \in WhiteSpace
      THEN <<" ">> \o CollapseWhiteSpace(TrimStart(str))
    ELSE <<Head(str)>> \o CollapseWhiteSpace(Tail(str))

(* title.toLowerCase().trim().replace(/\s+/g, ' ') *)
NormalizedTitle(title) == CollapseWhiteSpace(Trim(ToLowerCase(title)))

Digit(n) ==
    CASE n = 0 -> "0" [] n = 1 -> "1" [] n = 2 -> "2" [] n = 3 -> "3" [] n = 4 -> "4"
      [] n = 5 -> "5" [] n = 6 -> "6" [] n = 7 -> "7" [] n = 8 -> "8" [] n = 9 -> "9"

Pad2(n) == <<Digit((n \div 10) % 10), Digit(n % 10)>>

(* date.toISOString().split('T')[0]: YYYY-MM-DD of the UTC day *)
DateStr(date) ==
    LET c == ISODay(date)
    IN  Pad2(c.y \div 100) \o Pad2(c.y % 100) \o <<"-">> \o Pad2(c.m) \o <<"-">> \o Pad2(c.d)

(* generateEventHash: the MD5 digest of `${venueId}|${dateStr}|${normalizedTitle}`, *)
(* taken to be free of collisions: a digest is the string it was computed from       *)
generateEventHash(venueId, date, title) ==
    venueId \o <<"|">> \o DateStr(date) \o <<"|">> \o NormalizedTitle(title)

(* the characters of a registered venue's id: one symbol *)
IdChars(id) == <<id>>

(* a faulty normalizeEvents that also skips the events without a doors time *)
SkipsEventWithoutDoors(date, doorsRaw) == date = NoDate \/ doorsRaw \in {<<>>, <<Word>>}

(* if (!date) continue *)
SkipsEvent(date, doorsRaw) == date = NoDate

(* a faulty reference: the parsed date of the event *)
DoorsReferenceEventDate(referenceDate, date) == date

(* parseVancouverDate(raw.doorsRaw): the reference is the default, new Date() *)
DoorsReference(referenceDate, date) == referenceDate

(* the body of the loop of normalizeEvents, date the parsed raw.dateRaw *)
NormalizeOne(tz, referenceDate, venueId, raw, date) ==
    IF SkipsEvent(date, raw.doorsRaw) THEN <<>>
    ELSE <<[venueId |-> venueId, title |-> raw.title, date |-> date,
            doorsTime |-> IF raw.doorsRaw # <<>>
                            THEN parseVancouverDate(tz, raw.doorsRaw,
                                                    DoorsReference(referenceDate, date))
                            ELSE NoDate,
            hash |-> generateEventHash(IdChars(venueId), date, raw.title)]>>

(* normalizeEvents called at instant referenceDate in a process of time zone tz *)
RECURSIVE NormalizeAt(_, _, _, _)
NormalizeAt(tz, referenceDate, venueId, rawEvents) ==
    IF rawEvents = <<>> THEN <<>>
    ELSE NormalizeOne(tz, referenceDate, venueId, Head(rawEvents),
                      parseVancouverDate(tz, Head(rawEvents).dateRaw, referenceDate))
           \o NormalizeAt(tz, referenceDate, venueId, Tail(rawEvents))

normalizeEvents(venueId, rawEvents) == NormalizeAt(systemTz, today, venueId, rawEvents)

(* GET: normalized.filter(e => !existingHashes.has(e.hash)), the hashes of the venue's rows *)
NewEvents(venueId, normalized) ==
    LET existingHashes == {dbEvents[i].hash : i \in {j \in DOMAIN dbEvents : dbEvents[j].venueId = venueId}}
    IN  SelectSeq(normalized, LAMBDA e : e.hash \notin existingHashes)

Rows(evs) == [i \in DOMAIN evs |-> [venueId |-> evs[i].venueId, hash |-> evs[i].hash]]

(* Event.hash is a unique column: an insert that would leave two rows with *)
(* one hash is rejected as a whole                                          *)
UniqueHashes(rows) == \A i, j \in DOMAIN rows : rows[i].hash = rows[j].hash => i = j

----------------------------------------------------------------------------
(* extractDoorsAndShow, over token sequences.  A number after a colon is *)
(* written with two digits.                                              *)

Music == Tok("music", 0)
Start == Tok("start", 0)

DoorsWords == {"doors"}
ShowWords  == {"show", "music", "start"}

(* the token at position i, or a token that matches nothing past the end *)
TokenAt(raw, i) == IF i \in DOMAIN raw THEN raw[i] ELSE Tok("end", 0)

(* \s*(?:@|at|:)?\s*(\d...: where group 1 starts after the word at i, 0 when *)
(* no digit follows                                                          *)
TimeStart(raw, i) ==
    IF TokenAt(raw, i + 1).t \in {"@", "at", ":"} /\ TokenAt(raw, i + 2).t = "num" THEN i + 2
    ELSE IF TokenAt(raw, i + 1).t = "num" THEN i + 1
    ELSE 0

(* raw.match(...): the leftmost word of `words` that a time follows, 0 when *)
(* the pattern does not match                                               *)
FirstMatch(raw, words) ==
    IF \E i \in DOMAIN raw : raw[i].t \in words /\ TimeStart(raw, i) # 0
      THEN CHOOSE i \in DOMAIN raw :
              /\ raw[i].t \in words /\ TimeStart(raw, i) # 0
              /\ \A j \in 1..(i - 1) : ~(raw[j].t \in words /\ TimeStart(raw, j) # 0)
      ELSE 0

(* the first two digits of a number *)
RECURSIVE LeadingTwo(_)
LeadingTwo(v) == IF v < 100 THEN v ELSE LeadingTwo(v \div 10)

(* (?::\d{2})?: the last token of hours and minutes for the hour at j *)
MinutesEnd(raw, j) ==
    IF TokenAt(raw, j + 1).t = ":" /\ TokenAt(raw, j + 2).t = "num" THEN j + 2 ELSE j

(* \s*(?:am|pm)?: the last token of the time whose hours and minutes end at k *)
AmPmEnd(raw, k) == IF TokenAt(raw, k + 1).t = "ampm" THEN k + 1 ELSE k

(* group 1, (\d{1,2}(?::\d{2})?\s*(?:am|pm)?), for the number at j: of a *)
(* number of more than two digits only the first two digits are matched  *)
MatchedTime(raw, j) ==
    IF raw[j].v >= 100 THEN <<Num(LeadingTwo(raw[j].v))>>
    ELSE SubSeq(raw, j, AmPmEnd(raw, MinutesEnd(raw, j)))

(* match ? parseVancouverDate(match[1]) : null, for the match at word i *)
ParseMatch(tz, raw, i, referenceDate) ==
    IF i = 0 THEN NoDate
    ELSE parseVancouverDate(tz, MatchedTime(raw, TimeStart(raw, i)), referenceDate)

DoorsField(tz, raw, referenceDate) ==
    ParseMatch(tz, raw, FirstMatch(raw, DoorsWords), referenceDate)

(* a faulty extraction that gives up the show time when there is no doors time *)
ShowFieldAfterDoors(tz, raw, referenceDate) ==
    IF DoorsField(tz, raw, referenceDate) = NoDate THEN NoDate
    ELSE ParseMatch(tz, raw, FirstMatch(raw, ShowWords), referenceDate)

ShowField(tz, raw, referenceDate) ==
    ParseMatch(tz, raw, FirstMatch(raw, ShowWords), referenceDate)

(* extractDoorsAndShow(raw) at instant referenceDate in a process of time zone tz *)
extractDoorsAndShow(tz, raw, referenceDate) ==
    [doors |-> DoorsField(tz, raw, referenceDate), show |-> ShowField(tz, raw, referenceDate)]

----------------------------------------------------------------------------
(* The classifier.  A string is the sequence of its characters. *)

(* str.includes(keyword), keyword not empty *)
Includes(str, keyword) ==
    \E i \in 0..(Len(str) - Len(keyword)) : SubSeq(str, i + 1, i + Len(keyword)) = keyword

(* the keys of KEYWORDS and of scores, in the order of Object.entries *)
EventTypes == <<"music", "comedy", "theatre", "screening", "other">>

KEYWORDS ==
    [music |->
      << <<"c", "o", "n", "c", "e", "r", "t">>,
         <<"l", "i", "v", "e", " ", "m", "u", "s", "i", "c">>,
         <<"b", "a", "n", "d">>,
         <<"d", "j">>,
         <<"a", "l", "b", "u", "m">>,
         <<"t", "o", "u", "r">>,
         <<"s", "i", "n", "g", "e", "r">>,
         <<"j", "a", "z", "z">>,
         <<"r", "o", "c", "k">>,
         <<"p", "u", "n", "k">>,
         <<"m", "e", "t", "a", "l">>,
         <<"h", "i", "p", " ", "h", "o", "p">>,
         <<"r", "a", "p">>,
         <<"e", "l", "e", "c", "t", "r", "o", "n", "i", "c">>,
         <<"f", "o", "l", "k">>,
         <<"c", "o", "u", "n", "t", "r", "y">>,
         <<"i", "n", "d", "i", "e">>,
         <<"f", "u", "n", "k">>,
         <<"s", "o", "u", "l">>,
         <<"r", "&", "b">>,
         <<"r", "e", "g", "g", "a", "e">>,
         <<"o", "r", "c", "h", "e", "s", "t", "r", "a">>,
         <<"s", "y", "m", "p", "h", "o", "n", "y">>,
         <<"a", "c", "o", "u", "s", "t", "i", "c">>,
         <<"v", "i", "n", "y", "l">>,
         <<"r", "e", "c", "o", "r", "d">> >>,
     comedy |->
      << <<"c", "o", "m", "e", "d", "y">>,
         <<"s", "t", "a", "n", "d", "-", "u", "p">>,
         <<"s", "t", "a", "n", "d", "u", "p">>,
         <<"c", "o", "m", "e", "d", "i", "a", "n">>,
         <<"i", "m", "p", "r", "o", "v">>,
         <<"s", "k", "e", "t", "c", "h">>,
         <<"l", "a", "u", "g", "h">>,
         <<"f", "u", "n", "n", "y">>,
         <<"c", "o", "m", "i", "c">>,
         <<"o", "p", "e", "n", " ", "m", "i", "c", " ", "c", "o", "m", "e", "d", "y">>,
         <<"r", "o", "a", "s", "t">> >>,
     theatre |->
      << <<"t", "h", "e", "a", "t", "r", "e">>,
         <<"t", "h", "e", "a", "t", "e", "r">>,
         <<"p", "l", "a", "y">>,
         <<"m", "u", "s", "i", "c", "a", "l">>,
         <<"d", "r", "a", "m", "a">>,
         <<"s", "t", "a", "g", "e">>,
         <<"p", "e", "r", "f", "o", "r", "m", "a", "n", "c", "e">>,
         <<"a", "c", "t">>,
         <<"p", "r", "o", "d", "u", "c", "t", "i", "o", "n">>,
         <<"p", "l", "a", "y", "w", "r", "i", "g", "h", "t">>,
         <<"b", "a", "l", "l", "e", "t">>,
         <<"d", "a", "n", "c", "e">>,
         <<"o", "p", "e", "r", "a">>,
         <<"b", "u", "r", "l", "e", "s", "q", "u", "e">>,
         <<"c", "a", "b", "a", "r", "e", "t">>,
         <<"d", "r", "a", "g">> >>,
     screening |->
      << <<"f", "i", "l", "m">>,
         <<"m", "o", "v", "i", "e">>,
         <<"s", "c", "r", "e", "e", "n", "i", "n", "g">>,
         <<"c", "i", "n", "e", "m", "a">>,
         <<"d", "o", "c", "u", "m", "e", "n", "t", "a", "r", "y">>,
         <<"s", "h", "o", "r", "t">>,
         <<"p", "r", "e", "m", "i", "e", "r", "e">>,
         <<"w", "a", "t", "c", "h", " ", "p", "a", "r", "t", "y">>,
         <<"m", "a", "t", "i", "n", "e", "e">> >>,
     other |-> <<>>]

(* scores[type] after the loops of lines 48-54: one for each keyword of the *)
(* type that the lower-cased title includes                                 *)
Score(normalized, type) ==
    Cardinality({k \in DOMAIN KEYWORDS[type] : Includes(normalized, KEYWORDS[type][k])})

(* a faulty comparison that lets a later type take over on a tie *)
BeatsOrTies(score, bestScore) == score >= bestScore

(* if (score > bestScore) *)
Beats(score, bestScore) == score > bestScore

(* the loop of lines 60-65 from the i-th entry of scores on *)
RECURSIVE BestType(_, _, _, _)
BestType(normalized, i, bestType, bestScore) ==
    IF i > Len(EventTypes) THEN bestType
    ELSE IF Beats(Score(normalized, EventTypes[i]), bestScore)
           THEN BestType(normalized, i + 1, EventTypes[i], Score(normalized, EventTypes[i]))
           ELSE BestType(normalized, i + 1, bestType, bestScore)

classifyEventType(title) == BestType(ToLowerCase(title), 1, "other", 0)

----------------------------------------------------------------------------
(* parsePrice *)

(* raw: string | undefined, the value undefined *)
NoString == <<"undefined">>

(* price: null; a price in cents is never negative *)
NoPrice == 0 - 1

IsDigit(c) == c \in {Digit(n) : n \in 0..9}

DigitValue(c) == CHOOSE n \in 0..9 : Digit(n) = c

(* the number written by the digits str[p..q] *)
RECURSIVE NumberOf(_, _, _)
NumberOf(str, p, q) ==
    IF q < p THEN 0 ELSE 10 * NumberOf(str, p, q - 1) + DigitValue(str[q])

(* lines 85-91: includes('free'), or equal to one of the four other indicators *)
IsFreeText(normalized) ==
    \/ Includes(normalized, <<"f", "r", "e", "e">>)
    \/ normalized = <<"p", "w", "y", "c">>
    \/ normalized = <<"p", "a", "y", " ", "w", "h", "a", "t", " ", "y", "o", "u", " ", "c", "a", "n">>
    \/ normalized = <<"$", "0">>
    \/ normalized = <<"0">>

(* /\$?(\d+(?:\.\d{2})?)/: group 1 starts at the first digit of the string, *)
(* 0 when there is none                                                    *)
FirstDigit(str) ==
    IF \E i \in DOMAIN str : IsDigit(str[i])
      THEN CHOOSE i \in DOMAIN str : IsDigit(str[i]) /\ \A j \in 1..(i - 1) : ~IsDigit(str[j])
      ELSE 0

(* \d+ is greedy: the last digit of the run that starts at p *)
LastDigit(str, p) ==
    CHOOSE q \in p..Len(str) :
        /\ \A i \in p..q : IsDigit(str[i])
        /\ q = Len(str) \/ ~IsDigit(str[q + 1])

(* (?:\.\d{2})? matches after the run that ends at q *)
HasCents(str, q) ==
    q + 3 <= Len(str) /\ str[q + 1] = "." /\ IsDigit(str[q + 2]) /\ IsDigit(str[q + 3])

(* Math.round(parseFloat(priceMatch[1]) * 100) for the match str[p..q] and *)
(* its two decimals, if matched                                            *)
MatchedCents(str, p, q) ==
    NumberOf(str, p, q) * 100 + (IF HasCents(str, q) THEN NumberOf(str, q + 2, q + 3) ELSE 0)

(* lines 84-103, on the lower-cased and trimmed string *)
PriceOfText(normalized) ==
    IF IsFreeText(normalized) THEN [price |-> 0, isFree |-> TRUE]
    ELSE IF FirstDigit(normalized) = 0 THEN [price |-> NoPrice, isFree |-> FALSE]
    ELSE [price |-> MatchedCents(normalized, FirstDigit(normalized),
                                 LastDigit(normalized, FirstDigit(normalized))),
          isFree |-> FALSE]

parsePrice(raw) ==
    IF raw = NoString \/ raw = <<>> THEN [price |-> NoPrice, isFree |-> FALSE]
    ELSE PriceOfText(Trim(ToLowerCase(raw)))

----------------------------------------------------------------------------
(* The events normalizeEvents pushes, with all their fields but the random  *)
(* id: the one of the API route and the one of the CLI script               *)

(* url: null *)
NoUrl == <<"null">>

(* raw.url || null: undefined and the empty string are falsy *)
OrNull(str) == IF str = NoString \/ str = <<>> THEN NoUrl ELSE str

(* the API route: the event pushed for a raw event whose date parsed *)
ApiEvent(tz, referenceDate, venueId, raw, date) ==
    [venueId |-> venueId, title |-> raw.title, date |-> date,
     doorsTime |-> IF raw.doorsRaw # <<>>
                     THEN parseVancouverDate(tz, raw.doorsRaw, DoorsReference(referenceDate, date))
                     ELSE NoDate,
     url |-> OrNull(raw.url),
     price |-> parsePrice(raw.priceRaw).price, isFree |-> parsePrice(raw.priceRaw).isFree,
     eventType |-> classifyEventType(raw.title),
     hash |-> generateEventHash(IdChars(venueId), date, raw.title),
     createdAt |-> referenceDate, updatedAt |-> referenceDate]

(* the API route: the body of the loop, date the parsed raw.dateRaw *)
ApiNormalizeOne(tz, referenceDate, venueId, raw, date) ==
    IF SkipsEvent(date, raw.doorsRaw) THEN <<>>
    ELSE <<ApiEvent(tz, referenceDate, venueId, raw, date)>>

RECURSIVE ApiNormalizeAt(_, _, _, _)
ApiNormalizeAt(tz, referenceDate, venueId, rawEvents) ==
    IF rawEvents = <<>> THEN <<>>
    ELSE ApiNormalizeOne(tz, referenceDate, venueId, Head(rawEvents),
                         parseVancouverDate(tz, Head(rawEvents).dateRaw, referenceDate))
           \o ApiNormalizeAt(tz, referenceDate, venueId, Tail(rawEvents))

(* a faulty script that keeps the url as the plugin gave it *)
CliUrlAsGiven(url) == url

(* the CLI script: url: raw.url || null *)
CliUrl(url) == OrNull(url)

(* the CLI script: the event pushed for a raw event whose date parsed *)
CliEvent(tz, referenceDate, venueId, raw, date) ==
    [venueId |-> venueId, title |-> raw.title, date |-> date,
     doorsTime |-> IF raw.doorsRaw # <<>>
                     THEN parseVancouverDate(tz, raw.doorsRaw, referenceDate)
                     ELSE NoDate,
     url |-> CliUrl(raw.url),
     price |-> parsePrice(raw.priceRaw).price, isFree |-> parsePrice(raw.priceRaw).isFree,
     eventType |-> classifyEventType(raw.title),
     hash |-> generateEventHash(IdChars(venueId), date, raw.title)]

(* the CLI script: the body of the loop, date the parsed raw.dateRaw *)
CliNormalizeOne(tz, referenceDate, venueId, raw, date) ==
    IF date = NoDate THEN <<>>
    ELSE <<CliEvent(tz, referenceDate, venueId, raw, date)>>

RECURSIVE CliNormalizeAt(_, _, _, _)
CliNormalizeAt(tz, referenceDate, venueId, rawEvents) ==
    IF rawEvents = <<>> THEN <<>>
    ELSE CliNormalizeOne(tz, referenceDate, venueId, Head(rawEvents),
                         parseVancouverDate(tz, Head(rawEvents).dateRaw, referenceDate))
           \o CliNormalizeAt(tz, referenceDate, venueId, Tail(rawEvents))

----------------------------------------------------------------------------
(* The run entry points: the API GET handler and the CLI main *)

(* a faulty handler that closes the scraper at the end of the try block *)
(* instead of in a finally block                                        *)
AfterTryWithoutFinally(fault) == IF fault = NoError THEN "finally" ELSE "done"

(* where control goes when the try block is left, normally (NoError) or by an *)
(* exception: both handlers have a finally block                               *)
AfterTry(fault) == "finally"

(* the try block is left; the GET handler's catch block records the exception *)
LeaveTry(fault) ==
    /\ runFault' = fault
    /\ rpc' = AfterTry(fault)
    /\ errors' = IF entry = "GET" /\ fault # NoError
                   THEN Append(errors, [venue |-> "Fatal", message |-> fault])
                   ELSE errors

(* the end of the loop body *)
NextVenue == vi' = vi + 1 /\ rpc' = "loop"

(* the events of the venue's result are now in the store, inserted or found there *)
Ingest == ingested' = ingested \cup {[run |-> runNo, venueId |-> venue.id, events |-> result.events]}

(* await scraper.init() *)
RunInit ==
    /\ rpc = "init"
    /\ \E outcome \in {"ok", "launch throws", "newContext throws"} :
          /\ InitBody(outcome)
          /\ IF outcome = "ok"
               THEN rpc' = "loop" /\ UNCHANGED <<runFault, errors>>
               ELSE LeaveTry(IF outcome = "launch throws" THEN LaunchMsg ELSE NewContextMsg)
    /\ nCalls' = nCalls + 1 /\ lastCall' = "init"
    /\ UNCHANGED <<callVars, result, attemptLog, backoffLog, issuedAt, minGap, entry, vi,
                   results, closeCalls, scrapeLog, dbEvents, normalizedEvents, response,
                   history>>
    /\ UNCHANGED <<auxVars, storeVars>>

(* for (const venue of venues): await scraper.runScraper(venue), or the loop ends *)
RunLoop ==
    /\ rpc = "loop"
    /\ IF vi <= Len(getEnabledVenues)
         THEN /\ RunScraperCall(getEnabledVenues[vi])
              /\ rpc' = "runScraper"
              /\ UNCHANGED <<runFault, errors>>
         ELSE /\ LeaveTry(NoError)
              /\ UNCHANGED <<scraperVars, worldVars, callVars, outVars, logVars>>
    /\ UNCHANGED <<entry, vi, results, closeCalls, scrapeLog, dbEvents, normalizedEvents,
                   response, history>>
    /\ UNCHANGED <<auxVars, storeVars>>

(* runScraper resolved: report.results.push(...); main normalizes at once *)
RunCollect ==
    /\ rpc = "runScraper" /\ pc = "idle"
    /\ history' = Append(history, [extracted |-> Extracted(attemptLog),
                                     events |-> IF attemptLog = <<>> THEN <<>>
                                                ELSE attemptLog[Len(attemptLog)].events])
    /\ IF entry = "GET"
         THEN /\ results' = Append(results, [venue |-> venue.name, status |-> result.status,
                                             found |-> Len(result.events)])
              /\ rpc' = "insertLog"
              /\ UNCHANGED <<vi, normalizedEvents>>
         ELSE /\ results' = Append(results, result)
              /\ normalizedEvents' =
                    IF result.status = "success"
                      THEN normalizedEvents \o normalizeEvents(venue.id, result.events)
                      ELSE normalizedEvents
              /\ NextVenue
    /\ UNCHANGED <<scraperVars, worldVars, callVars, outVars, logVars, entry, errors,
                   closeCalls, runFault, scrapeLog, dbEvents, response>>
    /\ UNCHANGED <<auxVars, storeVars>>

(* GET: await db.insert(ScrapeLog), then normalizeEvents or report.errors.push *)
DbInsertLog ==
    /\ rpc = "insertLog"
    /\ \/ /\ scrapeLog' = Append(scrapeLog, [venueId |-> venue.id, status |-> result.status,
                                             itemsFound |-> Len(result.events),
                                             errorMessage |-> result.errorMessage])
          /\ IF result.status = "success"
               THEN /\ IF normalizeEvents(venue.id, result.events) # <<>>
                         THEN rpc' = "selectHashes" /\ UNCHANGED <<vi, ingested>>
                         ELSE NextVenue /\ Ingest
                    /\ UNCHANGED errors
               ELSE /\ errors' = Append(errors, [venue |-> venue.name, message |-> result.errorMessage])
                    /\ NextVenue
                    /\ UNCHANGED ingested
          /\ UNCHANGED runFault
       \/ /\ LeaveTry(DbMsg)
          /\ UNCHANGED <<scrapeLog, vi, ingested>>
    /\ UNCHANGED <<scraperVars, worldVars, callVars, outVars, logVars, entry, results,
                   closeCalls, dbEvents, normalizedEvents, response, history>>
    /\ UNCHANGED <<auxVars, runNo>>

(* GET: await db.select({hash}).from(Event).where(venueId), then the filter *)
DbSelect ==
    /\ rpc = "selectHashes"
    /\ \/ /\ IF NewEvents(venue.id, normalizeEvents(venue.id, result.events)) # <<>>
               THEN rpc' = "insertEvents" /\ UNCHANGED <<vi, ingested>>
               ELSE NextVenue /\ Ingest
          /\ UNCHANGED <<runFault, errors>>
       \/ /\ LeaveTry(DbMsg)
          /\ UNCHANGED <<vi, ingested>>
    /\ UNCHANGED <<scraperVars, worldVars, callVars, outVars, logVars, entry, results,
                   closeCalls, scrapeLog, dbEvents, normalizedEvents, response, history>>
    /\ UNCHANGED <<auxVars, runNo>>

(* GET: await db.insert(Event).values(newEvents) *)
DbInsertEvents ==
    /\ rpc = "insertEvents"
    /\ \/ /\ UniqueHashes(dbEvents \o Rows(NewEvents(venue.id, normalizeEvents(venue.id, result.events))))
          /\ dbEvents' = dbEvents \o Rows(NewEvents(venue.id, normalizeEvents(venue.id, result.events)))
          /\ NextVenue /\ Ingest
          /\ UNCHANGED <<runFault, errors>>
       \/ /\ LeaveTry(DbMsg)
          /\ UNCHANGED <<vi, dbEvents, ingested>>
    /\ UNCHANGED <<scraperVars, worldVars, callVars, outVars, logVars, entry, results,
                   closeCalls, scrapeLog, normalizedEvents, response, history>>
    /\ UNCHANGED <<auxVars, runNo>>

(* finally { await scraper.close() }, then the handler returns or rethrows *)
RunFinally ==
    /\ rpc = "finally"
    /\ closeCalls' = closeCalls + 1
    /\ \E outcome \in {"ok", "context.close throws", "browser.close throws"} :
          /\ CloseBody(outcome)
          /\ response' = IF outcome # "ok" THEN "rejected"
                         ELSE IF runFault # NoError
                           THEN (IF entry = "GET" THEN "500" ELSE "rejected")
                           ELSE (IF entry = "GET" THEN "200" ELSE "resolved")
    /\ rpc' = "done"
    /\ nCalls' = nCalls + 1 /\ lastCall' = "close"
    /\ UNCHANGED <<callVars, result, attemptLog, backoffLog, issuedAt, minGap, entry, vi,
                   results, errors, runFault, scrapeLog, dbEvents, normalizedEvents, history>>
    /\ UNCHANGED <<auxVars, storeVars>>

(* A run starts with a freshly constructed EthicalScraper. *)
RunStart ==
    /\ ScraperInit /\ entry \in {"GET", "main"} /\ rpc = "init"
    /\ today = RunInstant /\ systemTz \in SystemZones /\ FnIdle

RunNext ==
    \/ RunInit
    \/ RunLoop
    \/ RunCollect
    \/ DbInsertLog
    \/ DbSelect
    \/ DbInsertEvents
    \/ RunFinally
    \/ ScraperStep

RunSpec == RunStart /\ [][RunNext]_vars

----------------------------------------------------------------------------
(* The store over several runs of the GET handler.  A run starts where     *)
(* scraper.init() has returned; runScraper is taken by what it resolves to. *)

MaxRuns == 2    \* runs of the GET handler against one store

(* the instants of the runs: 20:00Z on 2024-01-10, 2024-01-25 and 2024-02-20 *)
StoreInstants == {RunInstant, Wall(2024, 1, 25, 20, 0), Wall(2024, 2, 20, 20, 0)}

(* a listing with its year, and one as the Rio Theatre's calendar gives it: *)
(* "Thursday January 8 7:00 pm"                                             *)
StoreConcert ==
    [title |-> <<"C", "o", "n", "c", "e", "r", "t">>,
     dateRaw |-> <<Month(1), Num(12), Comma, Num(2024), Num(7), Colon, Num(30), PM>>,
     doorsRaw |-> <<>>]

StoreFilm ==
    [title |-> <<"F", "i", "l", "m", " ", "N", "i", "g", "h", "t">>,
     dateRaw |-> <<Dow(4), Month(1), Num(8), Num(7), Colon, Num(0), PM>>,
     doorsRaw |-> <<>>]

StoreEventLists ==
    {<<>>, <<StoreConcert>>, <<StoreFilm>>, <<StoreConcert, StoreFilm>>,
     <<StoreConcert, StoreConcert>>}

(* for (const venue of venues): const result = await scraper.runScraper(venue); *)
(* report.results.push(...)                                                      *)
StoreScrape ==
    /\ entry = "GET" /\ rpc = "loop" /\ vi <= Len(getEnabledVenues)
    /\ venue' = getEnabledVenues[vi]
    /\ \E res \in {SuccessResult(venue', evs) : evs \in StoreEventLists}
                    \cup {ErrorResult(venue', GotoMsg)} :
          /\ result' = res
          /\ results' = Append(results, [venue |-> venue'.name, status |-> res.status,
                                         found |-> Len(res.events)])
    /\ rpc' = "insertLog"
    /\ UNCHANGED <<scraperVars, worldVars, pc, caller, mode, attempt, lastError, page, events,
                   pending, sleepMs, thrown, logVars, entry, vi, errors, closeCalls, runFault,
                   scrapeLog, dbEvents, normalizedEvents, response, history>>
    /\ UNCHANGED <<auxVars, storeVars>>

(* the loop over the venues ends *)
StoreLoopEnd ==
    /\ entry = "GET" /\ rpc = "loop" /\ vi > Len(getEnabledVenues)
    /\ LeaveTry(NoError)
    /\ UNCHANGED <<scraperVars, worldVars, callVars, outVars, logVars, entry, vi, results,
                   closeCalls, scrapeLog, dbEvents, normalizedEvents, response, history>>
    /\ UNCHANGED <<auxVars, storeVars>>

(* finally { await scraper.close() }, and the response *)
StoreRespond ==
    /\ entry = "GET" /\ rpc = "finally"
    /\ closeCalls' = closeCalls + 1
    /\ response' = IF runFault # NoError THEN "500" ELSE "200"
    /\ rpc' = "done"
    /\ UNCHANGED <<scraperVars, worldVars, callVars, outVars, logVars, entry, vi, results,
                   errors, runFault, scrapeLog, dbEvents, normalizedEvents, history>>
    /\ UNCHANGED <<auxVars, storeVars>>

(* the next request arrives at a later instant; the tables persist *)
RunAgain ==
    /\ entry = "GET" /\ rpc = "done" /\ runNo < MaxRuns
    /\ runNo' = runNo + 1
    /\ \E t \in StoreInstants : t > today /\ today' = t
    /\ rpc' = "loop" /\ vi' = 1 /\ results' = <<>> /\ errors' = <<>>
    /\ runFault' = NoError /\ response' = "none"
    /\ UNCHANGED <<scraperVars, worldVars, callVars, outVars, logVars, entry, closeCalls,
                   scrapeLog, dbEvents, normalizedEvents, history>>
    /\ UNCHANGED <<systemTz, fn, fnIn, fnOut, plug, flights, ingested>>

StoreStart ==
    /\ ScraperInit /\ entry = "GET" /\ rpc = "loop"
    /\ today = RunInstant /\ systemTz \in SystemZones /\ FnIdle

StoreNext ==
    \/ StoreScrape
    \/ DbInsertLog
    \/ DbSelect
    \/ DbInsertEvents
    \/ StoreLoopEnd
    \/ StoreRespond
    \/ RunAgain

StoreSpec == StoreStart /\ [][StoreNext]_vars

----------------------------------------------------------------------------
(* The pure functions, applied to sample arguments: fnIn holds the arguments *)
(* of the calls to make, one record per call, and fnOut what the calls made  *)
(* so far returned.                                                          *)

(* date strings that carry their year, with the civil date and time they say: *)
(* "Friday, January 12, 2024 7:30 PM", "January 12, 2024 2:00 PM",            *)
(* "Jul 4, 2024 8:00 PM", "2024-03-10 12:00", "2024-11-03 12:00",             *)
(* "2024-01-12", "January 23rd, 2025", "Mar 9, 2025 1:30 AM",                 *)
(* "2025-11-02 00:30"                                                         *)
ExplicitSamples ==
    { [raw |-> <<Dow(5), Comma, Month(1), Num(12), Comma, Num(2024), Num(7), Colon, Num(30), PM>>,
       civil |-> [y |-> 2024, m |-> 1, d |-> 12, h |-> 19, mi |-> 30]],
      [raw |-> <<Month(1), Num(12), Comma, Num(2024), Num(2), Colon, Num(0), PM>>,
       civil |-> [y |-> 2024, m |-> 1, d |-> 12, h |-> 14, mi |-> 0]],
      [raw |-> <<Mon(7), Num(4), Comma, Num(2024), Num(8), Colon, Num(0), PM>>,
       civil |-> [y |-> 2024, m |-> 7, d |-> 4, h |-> 20, mi |-> 0]],
      [raw |-> <<Num(2024), Dash, Num(3), Dash, Num(10), Num(12), Colon, Num(0)>>,
       civil |-> [y |-> 2024, m |-> 3, d |-> 10, h |-> 12, mi |-> 0]],
      [raw |-> <<Num(2024), Dash, Num(11), Dash, Num(3), Num(12), Colon, Num(0)>>,
       civil |-> [y |-> 2024, m |-> 11, d |-> 3, h |-> 12, mi |-> 0]],
      [raw |-> <<Num(2024), Dash, Num(1), Dash, Num(12)>>,
       civil |-> [y |-> 2024, m |-> 1, d |-> 12, h |-> 0, mi |-> 0]],
      [raw |-> <<Month(1), Ord(23), Comma, Num(2025)>>,
       civil |-> [y |-> 2025, m |-> 1, d |-> 23, h |-> 0, mi |-> 0]],
      [raw |-> <<Mon(3), Num(9), Comma, Num(2025), Num(1), Colon, Num(30), AM>>,
       civil |-> [y |-> 2025, m |-> 3, d |-> 9, h |-> 1, mi |-> 30]],
      [raw |-> <<Num(2025), Dash, Num(11), Dash, Num(2), Num(0), Colon, Num(30)>>,
       civil |-> [y |-> 2025, m |-> 11, d |-> 2, h |-> 0, mi |-> 30]] }

(* date strings without a year: "Thursday January 8 7:00 pm",                *)
(* "Dec 31 11:00 PM", "Jan 5 8:00 PM", "Jan 4 8:00 PM", "Doors @ 7pm",       *)
(* "Show: 9:30pm", "Feb 29", "Saturday, June 15"                             *)
YearlessSamples ==
    { <<Dow(4), Month(1), Num(8), Num(7), Colon, Num(0), PM>>,
      <<Mon(12), Num(31), Num(11), Colon, Num(0), PM>>,
      <<Mon(1), Num(5), Num(8), Colon, Num(0), PM>>,
      <<Mon(1), Num(4), Num(8), Colon, Num(0), PM>>,
      <<Doors, AtSign, Num(7), PM>>,
      <<Show, Colon, Num(9), Colon, Num(30), PM>>,
      <<Mon(2), Num(29)>>,
      <<Dow(6), Comma, Month(6), Num(15)>> }

(* values no format reads: "", undefined, "TBA", "January 2026 10 8:00 PM", *)
(* "February 30, 2024", "13:00 PM", "January 12 2024"                       *)
BadSamples ==
    { <<>>, NotAString, <<Word>>,
      <<Month(1), Num(2026), Num(10), Num(8), Colon, Num(0), PM>>,
      <<Month(2), Num(30), Comma, Num(2024)>>,
      <<Num(13), Colon, Num(0), PM>>,
      <<Month(1), Num(12), Num(2024)>> }

DateSamples == {s.raw : s \in ExplicitSamples} \cup YearlessSamples \cup BadSamples

(* the instants new Date() gives: 2023-12-25T00:00Z, 2024-01-01T00:00Z,     *)
(* 2024-01-01T02:00Z, 2024-01-10T20:00Z, 2024-01-20T02:00Z,                 *)
(* 2024-07-01T19:00Z, 2025-12-20T20:00Z                                     *)
ReferenceInstants ==
    { Wall(2023, 12, 25, 0, 0), Wall(2024, 1, 1, 0, 0), Wall(2024, 1, 1, 2, 0), RunInstant,
      Wall(2024, 1, 20, 2, 0), Wall(2024, 7, 1, 19, 0), Wall(2025, 12, 20, 20, 0) }

(* raw events: a date and a doors time that parse, twice with the same     *)
(* doors time; a date that parses and                                      *)
(* a doors time that does not; a date that does not parse; no date at all; *)
(* a date without its year                                                 *)
FnRawEvents ==
    { [title |-> <<"A", "b">>,
       dateRaw |-> <<Month(1), Num(12), Comma, Num(2024), Num(7), Colon, Num(30), PM>>,
       doorsRaw |-> <<Doors, AtSign, Num(7), PM>>],
      [title |-> <<"a", "b">>,
       dateRaw |-> <<Month(1), Num(12), Comma, Num(2024), Num(2), Colon, Num(0), PM>>,
       doorsRaw |-> <<Word>>],
      [title |-> <<"F", "i", "l", "m">>, dateRaw |-> <<Word>>,
       doorsRaw |-> <<Num(7), Colon, Num(0), PM>>],
      [title |-> <<"B">>,
       dateRaw |-> <<Month(2), Num(3), Comma, Num(2024), Num(2), Colon, Num(0), PM>>,
       doorsRaw |-> <<Doors, AtSign, Num(7), PM>>],
      [title |-> <<"c">>, dateRaw |-> <<>>, doorsRaw |-> <<>>],
      [title |-> <<"N", "a">>,
       dateRaw |-> <<Dow(4), Month(1), Num(8), Num(7), Colon, Num(0), PM>>,
       doorsRaw |-> <<>>] }

FnEventLists == UNION { [1..n -> FnRawEvents] : n \in 0..MaxEvents }

FnVenueIds == {<<"r", "i", "o">>, <<"f", "o", "x">>}

FnTitles ==
    { <<"A", "b">>, <<"a", "b">>, <<" ", "a", "b", " ">>, <<"a", " ", " ", "b">>,
      <<"a", " ", "b">>, <<"a", "\t", "B">>, <<"a", "c">>, <<"b">> }

(* the instants of 14:00, 19:30 and 00:00 of 2024-01-12 and of 10:00 of *)
(* 2024-01-13 in Vancouver                                               *)
FnDates ==
    { VancouverToInstant(Wall(2024, 1, 12, 14, 0)), VancouverToInstant(Wall(2024, 1, 12, 19, 30)),
      VancouverToInstant(Wall(2024, 1, 12, 0, 0)), VancouverToInstant(Wall(2024, 1, 13, 10, 0)) }

HashArgs == [venueId : FnVenueIds, date : FnDates, title : FnTitles]

(* titles for classifyEventType: no keyword, one, several of one type, ties *)
(* of two and of four types, a keyword inside a word, a repeated keyword    *)
ClassifierTitles ==
    { <<"J", "a", "z", "z", " ", "N", "i", "g", "h", "t">>,
      <<"C", "O", "M", "E", "D", "Y", " ", "R", "O", "C", "K">>,
      <<"C", "o", "m", "e", "d", "y", " ", "P", "l", "a", "y">>,
      <<"F", "i", "l", "m", " ", "P", "l", "a", "y">>,
      <<"O", "p", "e", "n", " ", "M", "i", "c", " ", "C", "o", "m", "e", "d", "y">>,
      <<"R", "o", "c", "k", " ", "C", "o", "m", "e", "d", "y", " ", "I", "m", "p", "r", "o", "v">>,
      <<"B", "i", "n", "g", "o">>,
      <<"P", "r", "a", "c", "t", "i", "c", "e">>,
      <<"S", "h", "o", "r", "t", " ", "F", "i", "l", "m", " ", "D", "r", "a", "m", "a">>,
      <<>>,
      <<"D", "r", "a", "g", " ", "S", "t", "a", "n", "d", "u", "p", " ", "F", "i", "l", "m", " ", "J", "a", "z", "z">>,
      <<"C", "o", "m", "e", "d", "y", " ", "C", "o", "m", "e", "d", "y", " ", "R", "o", "c", "k">>,
      <<"T", "r", "i", "v", "i", "a">> }

(* price strings for parsePrice: the free indicators, alone and inside a *)
(* longer text, prices with and without cents, ranges, text without a    *)
(* number, the empty string and undefined                                *)
PriceSamples ==
    { NoString,
      <<"$", "1", "5">>,
      <<"$", "1", "5", ".", "0", "0">>,
      <<"1", "5">>,
      <<"$", "1", "5", "-", "$", "2", "5">>,
      <<"1", "2", ".", "5", "0">>,
      <<"1", "2", ".", "5">>,
      <<"F", "r", "e", "e">>,
      <<"F", "R", "E", "E", " ">>,
      <<"f", "r", "e", "e", " ", "a", "d", "m", "i", "s", "s", "i", "o", "n">>,
      <<"$", "2", "0", " ", "k", "i", "d", "s", " ", "f", "r", "e", "e">>,
      <<"P", "W", "Y", "C">>,
      <<"P", "a", "y", " ", "W", "h", "a", "t", " ", "Y", "o", "u", " ", "C", "a", "n">>,
      <<"$", "0">>,
      <<"0">>,
      <<"$", "0", ".", "5", "0">>,
      <<"1", "0">>,
      <<"T", "B", "A">>,
      <<>>,
      <<" ">>,
      <<"p", "w", "y", "c", " ", "$", "5">>,
      <<"$", "5", " ", "/", " ", "P", "W", "Y", "C">>,
      <<"0", ".", "0", "0">> }

(* the doors part of a text and the time written in it: none, "Doors      *)
(* 7:00pm", "Doors at 7pm", "Doors 7" (no format reads "7") and "Doors open" *)
DoorsParts ==
    { [text |-> <<>>, time |-> <<>>],
      [text |-> <<Doors, Num(7), Colon, Num(0), PM>>, time |-> <<Num(7), Colon, Num(0), PM>>],
      [text |-> <<Doors, AtWord, Num(7), PM>>, time |-> <<Num(7), PM>>],
      [text |-> <<Doors, Num(7)>>, time |-> <<Num(7)>>],
      [text |-> <<Doors, Word>>, time |-> <<>>] }

(* the show part: none, "Show 8:00pm", "Music @ 9pm", "Start: 25pm" (not an *)
(* hour) and "Show: late"                                                    *)
ShowParts ==
    { [text |-> <<>>, time |-> <<>>],
      [text |-> <<Show, Num(8), Colon, Num(0), PM>>, time |-> <<Num(8), Colon, Num(0), PM>>],
      [text |-> <<Music, AtSign, Num(9), PM>>, time |-> <<Num(9), PM>>],
      [text |-> <<Start, Colon, Num(25), PM>>, time |-> <<Num(25), PM>>],
      [text |-> <<Show, Colon, Word>>, time |-> <<>>] }

(* texts of a doors part and a show part, in either order *)
DoorsShowSamples ==
    { [raw |-> d.text \o sh.text, doors |-> d.time, show |-> sh.time] :
        d \in DoorsParts, sh \in ShowParts }
      \cup { [raw |-> sh.text \o d.text, doors |-> d.time, show |-> sh.time] :
                d \in DoorsParts, sh \in ShowParts }

(* the url and the price of a raw event: both absent; an empty url and a    *)
(* free event; both given                                                   *)
UrlAndPriceSamples ==
    { [url |-> NoString, priceRaw |-> NoString],
      [url |-> <<>>, priceRaw |-> <<"F", "r", "e", "e">>],
      [url |-> <<"/", "e", "1">>, priceRaw |-> <<"$", "1", "5">>] }

(* the raw events of FnRawEvents with the url and the price a plugin adds *)
FullRawEvents ==
    { [title |-> r.title, dateRaw |-> r.dateRaw, doorsRaw |-> r.doorsRaw,
       url |-> x.url, priceRaw |-> x.priceRaw] :
          r \in FnRawEvents, x \in UrlAndPriceSamples }

FullEventLists == UNION { [1..n -> FullRawEvents] : n \in 0..MaxEvents }

FnStart ==
    /\ ScraperInit /\ entry = "fn" /\ rpc = "fn"
    /\ fnOut = <<>> /\ plug = NoPlugin /\ flights = NoFlights
    /\ \/ /\ fn = "parseVancouverDate"
          /\ systemTz \in SystemZones /\ today \in ReferenceInstants
          /\ fnIn \in {<<[raw |-> r]>> : r \in DateSamples}
       \/ /\ fn = "normalizeEvents"
          /\ systemTz \in SystemZones /\ today \in ReferenceInstants
          /\ fnIn \in {<<[venueId |-> RioTheatre.id, rawEvents |-> evs]>> : evs \in FnEventLists}
       \/ /\ fn = "generateEventHash"
          /\ systemTz = "UTC" /\ today = RunInstant
          /\ fnIn \in {<<a, b>> : a, b \in HashArgs}
       \/ /\ fn = "classifyEventType"
          /\ systemTz = "UTC" /\ today = RunInstant
          /\ fnIn \in {<<[title |-> t]>> : t \in ClassifierTitles}
       \/ /\ fn = "extractDoorsAndShow"
          /\ systemTz \in SystemZones /\ today \in {RunInstant, Wall(2024, 7, 1, 3, 0)}
          /\ fnIn \in {<<a, b>> : a, b \in DoorsShowSamples}
       \/ /\ fn = "parsePrice"
          /\ systemTz = "UTC" /\ today = RunInstant
          /\ fnIn \in {<<[raw |-> r]>> : r \in PriceSamples}
       \/ /\ fn = "normalizeEvents, route and script"
          /\ systemTz \in SystemZones /\ today \in {RunInstant, Wall(2024, 1, 1, 2, 0)}
          /\ fnIn \in {<<[venueId |-> RioTheatre.id, rawEvents |-> evs]>> : evs \in FullEventLists}

FnUnchanged ==
    UNCHANGED <<scraperVars, worldVars, callVars, outVars, logVars, runVars, storeVars,
                today, systemTz, fn, fnIn, plug, flights>>

(* the instant of the call: parseVancouverDate(raw), referenceDate = new Date() *)
ApplyParseVancouverDate ==
    /\ fn = "parseVancouverDate" /\ Len(fnOut) < Len(fnIn)
    /\ fnOut' = Append(fnOut, parseVancouverDate(systemTz, fnIn[Len(fnOut) + 1].raw, today))
    /\ FnUnchanged

ApplyNormalizeEvents ==
    /\ fn = "normalizeEvents" /\ Len(fnOut) < Len(fnIn)
    /\ LET arg == fnIn[Len(fnOut) + 1]
       IN  fnOut' = Append(fnOut, normalizeEvents(arg.venueId, arg.rawEvents))
    /\ FnUnchanged

ApplyGenerateEventHash ==
    /\ fn = "generateEventHash" /\ Len(fnOut) < Len(fnIn)
    /\ LET arg == fnIn[Len(fnOut) + 1]
       IN  fnOut' = Append(fnOut, generateEventHash(arg.venueId, arg.date, arg.title))
    /\ FnUnchanged

ApplyClassifyEventType ==
    /\ fn = "classifyEventType" /\ Len(fnOut) < Len(fnIn)
    /\ fnOut' = Append(fnOut, classifyEventType(fnIn[Len(fnOut) + 1].title))
    /\ FnUnchanged

ApplyParsePrice ==
    /\ fn = "parsePrice" /\ Len(fnOut) < Len(fnIn)
    /\ fnOut' = Append(fnOut, parsePrice(fnIn[Len(fnOut) + 1].raw))
    /\ FnUnchanged

ApplyExtractDoorsAndShow ==
    /\ fn = "extractDoorsAndShow" /\ Len(fnOut) < Len(fnIn)
    /\ fnOut' = Append(fnOut, extractDoorsAndShow(systemTz, fnIn[Len(fnOut) + 1].raw, today))
    /\ FnUnchanged

(* the API route's normalizeEvents, then the CLI script's, on one argument  *)
(* at one instant                                                           *)
ApplyApiNormalizeEvents ==
    /\ fn = "normalizeEvents, route and script" /\ fnOut = <<>>
    /\ fnOut' = <<ApiNormalizeAt(systemTz, today, fnIn[1].venueId, fnIn[1].rawEvents)>>
    /\ FnUnchanged

ApplyCliNormalizeEvents ==
    /\ fn = "normalizeEvents, route and script" /\ Len(fnOut) = 1
    /\ fnOut' = Append(fnOut, CliNormalizeAt(systemTz, today, fnIn[1].venueId, fnIn[1].rawEvents))
    /\ FnUnchanged

FnNext ==
    \/ ApplyParseVancouverDate
    \/ ApplyNormalizeEvents
    \/ ApplyGenerateEventHash
    \/ ApplyClassifyEventType
    \/ ApplyParsePrice
    \/ ApplyExtractDoorsAndShow
    \/ ApplyApiNormalizeEvents
    \/ ApplyCliNormalizeEvents

FnSpec == FnStart /\ [][FnNext]_vars

----------------------------------------------------------------------------
(* Two fetch calls on one EthicalScraper at a time: a client that does not *)
(* await one fetchDynamic or fetchStatic before it calls the next.  Each   *)
(* call runs rateLimit() up to its await in one step, JavaScript being     *)
(* single-threaded, and the calls interleave at their awaits.              *)

Flights == {1, 2}

IdleFlight == [pc |-> "idle", mode |-> "dynamic", read |-> 0, due |-> 0, call |-> 0]

RaceUnchanged ==
    UNCHANGED <<callVars, result, attemptLog, backoffLog, runVars, storeVars,
                today, systemTz, fn, fnIn, fnOut, plug>>

(* await scraper.init(), while no fetch is in flight *)
RaceInit ==
    /\ \A c \in Flights : flights[c].pc = "idle"
    /\ context = NULL /\ nCalls < MaxCalls
    /\ \E outcome \in {"ok", "launch throws", "newContext throws"} : InitBody(outcome)
    /\ nCalls' = nCalls + 1 /\ lastCall' = "init"
    /\ UNCHANGED <<issuedAt, minGap, flights>>
    /\ RaceUnchanged

(* fetchDynamic(url) or fetchStatic(url) up to the first await: the guard *)
(* of fetchDynamic, then rateLimit() lines 112-117, or 112-120 when there *)
(* is nothing to wait for                                                 *)
RaceFetch(c, m) ==
    /\ flights[c].pc = "idle" /\ nCalls < MaxCalls
    /\ nCalls' = nCalls + 1
    /\ lastCall' = IF m = "dynamic" THEN "fetchDynamic" ELSE "fetchStatic"
    /\ IF m = "dynamic" /\ context = NULL
         THEN /\ thrown' = NotInitializedMsg
              /\ UNCHANGED <<lastRequestTime, issuedAt, minGap, flights>>
         ELSE /\ thrown' = NoError
              /\ IF Remaining(now, lastRequestTime) > 0
                   THEN /\ flights' = [flights EXCEPT ![c] =
                                          [pc |-> "rateLimit", mode |-> m, read |-> now,
                                           due |-> now + Remaining(now, lastRequestTime),
                                           call |-> nCalls + 1]]
                        /\ UNCHANGED <<lastRequestTime, issuedAt, minGap>>
                   ELSE /\ flights' = [flights EXCEPT ![c] =
                                          [pc |-> "request", mode |-> m, read |-> now,
                                           due |-> now, call |-> nCalls + 1]]
                        /\ lastRequestTime' = Watermark(now, now)
                        /\ Issue(now)
    /\ UNCHANGED <<browser, context, worldVars>>
    /\ RaceUnchanged

(* rateLimit line 120, when the timer of line 117 has fired *)
RaceWake(c) ==
    /\ flights[c].pc = "rateLimit" /\ now >= flights[c].due
    /\ flights' = [flights EXCEPT ![c].pc = "request"]
    /\ lastRequestTime' = Watermark(flights[c].read, now)
    /\ Issue(now)
    /\ UNCHANGED <<browser, context, worldVars, thrown, nCalls, lastCall>>
    /\ RaceUnchanged

(* the request of the call: context.newPage(), page.goto and page.content of *)
(* fetchDynamic, or fetch(url) of fetchStatic, until the call settles        *)
RaceSettle(c) ==
    /\ flights[c].pc = "request"
    /\ flights' = [flights EXCEPT ![c] = IdleFlight]
    /\ \/ /\ flights[c].mode = "dynamic"
          /\ \/ /\ pages' = Append(pages, [context |-> NewPageContext(context),
                                           call |-> flights[c].call])
                /\ thrown' \in {NoError, GotoMsg, ContentMsg}
             \/ /\ thrown' = NewPageMsg
                /\ UNCHANGED pages
       \/ /\ flights[c].mode = "static"
          /\ thrown' \in {NoError, HttpMsg}
          /\ UNCHANGED pages
    /\ UNCHANGED <<scraperVars, now, browsers, contexts, nCalls, lastCall, issuedAt, minGap>>
    /\ RaceUnchanged

(* time passes; a timer fires at most MaxJitter after it is due *)
RaceTick ==
    /\ now + 1 <= MaxTime
    /\ \A c \in Flights : flights[c].pc = "rateLimit" => now < flights[c].due + MaxJitter
    /\ \E c \in Flights : flights[c].pc # "idle"
    /\ now' = now + 1
    /\ UNCHANGED <<scraperVars, browsers, contexts, pages, outVars, logVars, flights>>
    /\ UNCHANGED <<callVars, runVars, storeVars, today, systemTz, fn, fnIn, fnOut, plug>>

RaceStart ==
    /\ ScraperInit /\ entry = "client" /\ rpc = "race"
    /\ today = RunInstant /\ systemTz = "UTC"
    /\ fn = "none" /\ fnIn = <<>> /\ fnOut = <<>> /\ plug = NoPlugin
    /\ flights = [c \in Flights |-> IdleFlight]

RaceNext ==
    \/ RaceInit
    \/ \E c \in Flights : \E m \in {"dynamic", "static"} : RaceFetch(c, m)
    \/ \E c \in Flights : RaceWake(c)
    \/ \E c \in Flights : RaceSettle(c)
    \/ RaceTick

RaceSpec == RaceStart /\ [][RaceNext]_vars

----------------------------------------------------------------------------
(* Properties of runScraper *)

(* a runScraper call on an enabled venue has returned *)
Returned == pc = "idle" /\ lastCall = "runScraper" /\ result.status \in {"success", "error"}

(* a runScraper call on an enabled venue is in progress or has returned *)
InRunScraper == lastCall = "runScraper" /\ (caller = "runScraper" \/ Returned)

LastAttempt == attemptLog[Len(attemptLog)]

AllAttemptsFailed == \A i \in DOMAIN attemptLog : attemptLog[i].error # NoError

AllFetchesThrew == \A i \in DOMAIN attemptLog : attemptLog[i].fetch \in {"threw", "not initialized"}

(* C1 as stated: runScraper never propagates an exception; when every attempt *)
(* fails it returns status 'error' with an empty events list and an           *)
(* errorMessage that equals the message of the exception caught in the last   *)
(* attempt and is never empty.                                                *)
C1_LastMessageVerbatim ==
    /\ lastCall = "runScraper" => thrown = NoError
    /\ Returned /\ AllAttemptsFailed => result.status = "error"
    /\ Returned /\ result.status = "error" =>
          /\ result.events = <<>>
          /\ result.errorMessage = LastAttempt.error
          /\ result.errorMessage # ""

(* C1 amended: runScraper never propagates an exception; when every attempt   *)
(* fails it returns status 'error' with an empty events list and an           *)
(* errorMessage that is the message of the exception caught in the last       *)
(* attempt, or 'Unknown error' when that message is empty; it is never empty. *)
C1_ErrorResult ==
    /\ lastCall = "runScraper" => thrown = NoError
    /\ Returned /\ AllAttemptsFailed => result.status = "error"
    /\ Returned /\ result.status = "error" =>
          /\ AllAttemptsFailed
          /\ result.events = <<>>
          /\ result.errorMessage = IF LastAttempt.error = "" THEN "Unknown error"
                                   ELSE LastAttempt.error
          /\ result.errorMessage # ""

(* every attempt failed and the last exception had an empty message *)
C1_Witness ==
    /\ Returned /\ result.status = "error"
    /\ Len(attemptLog) = maxRetries
    /\ LastAttempt.error = ""
    /\ attemptLog[1].error = GotoMsg

(* C3: for an enabled venue whose fetch throws on every attempt, runScraper *)
(* performs exactly maxRetries attempts before returning the error result,  *)
(* and never more than maxRetries attempts in any call.                     *)
C3_ExactlyMaxRetries ==
    /\ Len(attemptLog) <= maxRetries
    /\ Returned /\ AllFetchesThrew =>
          /\ result.status = "error"
          /\ Len(attemptLog) = maxRetries

C3_Witness ==
    /\ Returned /\ AllFetchesThrew
    /\ Len(attemptLog) = maxRetries
    /\ \A i \in DOMAIN attemptLog : attemptLog[i].fetch = "threw"

(* C4 as stated: if in some attempt the fetch and the venue's scrape() both  *)
(* complete without exception, that attempt is the last one, no backoff      *)
(* follows it, and runScraper returns status 'success' with exactly the      *)
(* events that scrape() returned.                                            *)
C4_SuccessEndsCall ==
    InRunScraper =>
      \A i \in DOMAIN attemptLog :
        attemptLog[i].fetch = "ok" /\ attemptLog[i].scrape = "ok" =>
          /\ i = Len(attemptLog)
          /\ Len(backoffLog) < i
          /\ pc \in {"pageClose", "idle"}
          /\ pc = "idle" => result.status = "success"

(* the attempt's fetch and scrape() completed, page.close() then rejected, *)
(* and runScraper went into a backoff                                       *)
C4_Retried ==
    /\ InRunScraper /\ pc = "backoff"
    /\ LastAttempt.fetch = "ok" /\ LastAttempt.scrape = "ok" /\ LastAttempt.close = "threw"

(* C5 as stated: a page that fetchDynamic opened during an attempt has been  *)
(* closed when the next attempt starts and when runScraper returns.          *)
C5_PageClosed ==
    (lastCall = "runScraper" /\ (Returned \/ (caller = "runScraper" /\ pc = "fetchDynamic")))
      => OpenPagesOfCall = {}

(* C6: runScraper on a disabled venue returns at once with status 'skipped'  *)
(* and an empty events list; it fetches nothing, opens no page, does not     *)
(* suspend, and leaves the watermark and the browser session as they were.   *)
C6_DisabledSkipped ==
    [][ (nCalls' = nCalls + 1 /\ lastCall' = "runScraper" /\ ~venue'.enabled) =>
          /\ pc' = "idle"
          /\ result' = [venueId |-> venue'.id, status |-> "skipped", events |-> <<>>,
                        errorMessage |-> Undefined]
          /\ thrown' = NoError
          /\ sleepMs' = 0
          /\ UNCHANGED <<browser, context, lastRequestTime, now, browsers, contexts,
                         pages, issuedAt>> ]_vars

(* a disabled venue was skipped while a session was up and a request had been made *)
C6_Witness ==
    /\ pc = "idle" /\ lastCall = "runScraper" /\ result.status = "skipped"
    /\ ~venue.enabled
    /\ context # NULL /\ lastRequestTime > 0

(* C7: over calls of fetchDynamic and fetchStatic made one after another,    *)
(* two consecutive request instants (the values the watermark takes) are at  *)
(* least delayMs apart; a call suspends only when less than delayMs has      *)
(* elapsed since the watermark, and then for what is missing; every call     *)
(* that gets through the limiter sets the watermark to the instant at which  *)
(* it leaves the limiter.                                                    *)
C7_RequestSpacing ==
    /\ minGap >= delayMs
    /\ issuedAt = lastRequestTime
    /\ lastRequestTime <= now
    /\ pc = "rateLimit" =>
          /\ sleepMs > 0
          /\ sleepMs = delayMs - (now - lastRequestTime)
    /\ pc = "newPage" => lastRequestTime = now

(* a static request issued after a suspension, following a dynamic request *)
C7_Witness ==
    /\ pc = "fetch" /\ mode = "static" /\ sleepMs > 0
    /\ lastRequestTime = now
    /\ pages # <<>>
    /\ minGap = delayMs

(* C8: the backoff between the k-th and the (k+1)-th attempt is              *)
(* delayMs * 2^(k-1) for k = 1 .. maxRetries-1; the rate limiter adds no     *)
(* wait to the attempts that follow a backoff; there is no backoff after the *)
(* final attempt.                                                            *)
C8_ExponentialBackoff ==
    InRunScraper =>
      /\ Len(backoffLog) <= maxRetries - 1
      /\ \A k \in DOMAIN backoffLog : backoffLog[k] = delayMs * (2 ^ (k - 1))
      /\ \A k \in DOMAIN attemptLog : k >= 2 => attemptLog[k].wait = 0
      /\ pc = "backoff" =>
            /\ Len(backoffLog) = attempt /\ Len(attemptLog) = attempt
            /\ sleepMs = backoffLog[attempt]
      /\ caller = "runScraper" /\ pc # "backoff" => Len(backoffLog) = attempt - 1
      /\ Returned => Len(backoffLog) = Len(attemptLog) - 1
      /\ Returned /\ result.status = "error" => Len(attemptLog) = maxRetries

(* every attempt failed: two backoffs, delayMs and then 2 * delayMs *)
C8_Witness ==
    /\ Returned /\ result.status = "error"
    /\ backoffLog = <<delayMs, 2 * delayMs>>
    /\ Len(attemptLog) = maxRetries

(* C9 as stated: the failure of fetchDynamic on a scraper whose context is   *)
(* null (before init() or after close()) is fatal: the attempt is not        *)
(* retried, no backoff is taken, the failure does not become an 'error'      *)
(* result, and runScraper rejects with it.                                   *)
C9_NotInitializedFatal ==
    InRunScraper =>
      \A i \in DOMAIN attemptLog :
        attemptLog[i].fetch = "not initialized" =>
          /\ Len(attemptLog) = 1
          /\ backoffLog = <<>>
          /\ pc = "idle"
          /\ result.status # "error"
          /\ thrown = NotInitializedMsg

(* runScraper on a scraper never initialised returned an 'error' result *)
(* after maxRetries attempts                                            *)
C9_Retried ==
    /\ Returned /\ result.status = "error"
    /\ result.errorMessage = NotInitializedMsg
    /\ Len(attemptLog) = maxRetries
    /\ Len(backoffLog) = maxRetries - 1

----------------------------------------------------------------------------
(* Properties of the run entry points *)

(* the events the i-th result of the run reports are those of the i-th venue's *)
(* last attempt: the list itself for main, its length for the GET handler      *)
EventsIntact(i) ==
    IF entry = "GET" THEN results[i].found = Len(history[i].events)
    ELSE results[i].events = history[i].events

(* C2 as stated: in a run over the venues through runScraper, a venue whose   *)
(* fetch or extraction always fails does not abort the run: the run has one   *)
(* result per venue, in venue order, with status 'error' for a venue whose    *)
(* fetch or extraction always failed and status 'success', events intact,     *)
(* for every venue whose fetch and extraction succeeded.                      *)
C2_FaultIsolation ==
    /\ Len(results) = Len(history)
    /\ runFault \in {NoError, LaunchMsg, NewContextMsg, DbMsg}
    /\ rpc = "done" /\ runFault = NoError => Len(results) = Len(getEnabledVenues)
    /\ \A i \in DOMAIN results :
          /\ IF entry = "GET" THEN results[i].venue = getEnabledVenues[i].name
             ELSE results[i].venueId = getEnabledVenues[i].id
          /\ ~history[i].extracted => results[i].status = "error"
          /\ history[i].extracted => results[i].status = "success" /\ EventsIntact(i)

(* the run completed: the first venue, whose fetch and extraction succeeded in *)
(* every attempt, is reported 'error'; the second venue is reported 'success'  *)
C2_ExtractedReportedError ==
    /\ rpc = "done" /\ runFault = NoError
    /\ Len(results) = Len(getEnabledVenues)
    /\ history[1].extracted /\ results[1].status = "error"
    /\ history[2].extracted /\ results[2].status = "success"

(* C10: in the GET handler and in main, whichever way the try block is left   *)
(* (init() throwing, a database call throwing in the loop, or the loop        *)
(* ending), close() has been invoked exactly once when the run returns, it is *)
(* never invoked twice, and after it no call is in progress and no request is *)
(* issued.                                                                    *)
C10_CloseOnEveryPath ==
    /\ closeCalls <= 1
    /\ rpc = "done" <=> closeCalls = 1
    /\ closeCalls = 1 =>
          /\ pc = "idle" /\ lastCall = "close"
          /\ response # "none"
    /\ closeCalls = 0 => response = "none"

(* the GET handler closed the scraper after a database call threw in the loop *)
(* of the second venue                                                        *)
C10_Witness ==
    /\ rpc = "done" /\ closeCalls = 1
    /\ entry = "GET" /\ runFault = DbMsg /\ response = "500"
    /\ Len(results) = 2
    /\ context = NULL

(* the run is between the return of init() and the call of close() *)
InSession ==
    \/ rpc \in {"loop", "runScraper", "insertLog", "selectHashes", "insertEvents"}
    \/ rpc = "finally" /\ runFault \notin {LaunchMsg, NewContextMsg}

(* C11: during one run the browser and its context are created once, by       *)
(* init(); every page fetchDynamic opens, for every venue and every attempt,  *)
(* is opened in that context; between the return of init() and the final      *)
(* close() the scraper holds that same open browser and context, never null.  *)
C11_OneSession ==
    /\ Len(browsers) <= 1 /\ Len(contexts) <= 1
    /\ \A p \in DOMAIN pages : pages[p].context = 1 /\ pages[p].context = context
    /\ InSession =>
          /\ browser = 1 /\ context = 1
          /\ browsers = <<"open">>
          /\ contexts = <<[browser |-> 1, state |-> "open"]>>

(* the second venue's second attempt has opened its page, while pages of *)
(* earlier attempts are still open in the same context                  *)
C11_Witness ==
    /\ rpc = "runScraper" /\ vi = 2 /\ attempt = 2 /\ pc = "goto"
    /\ Len(pages) >= 3
    /\ \A p \in DOMAIN pages : pages[p].context = context

(* the rows of the Event table a venue's new events would become *)
NewRows == Rows(NewEvents(venue.id, normalizeEvents(venue.id, result.events)))

(* C12: over any sequence of runs of the GET handler the store holds at most *)
(* one event per (venueId, hash); an event is inserted only if no event with *)
(* its hash exists for its venue; and when the raw events a venue's scrape   *)
(* returned were stored by an earlier run, ingesting the same raw events for *)
(* that venue again inserts nothing.                                         *)
C12_IdempotentIngest ==
    [][ dbEvents' # dbEvents =>
          /\ \A i, j \in DOMAIN dbEvents' :
                (dbEvents'[i].venueId = dbEvents'[j].venueId
                   /\ dbEvents'[i].hash = dbEvents'[j].hash) => i = j
          /\ \A i \in (Len(dbEvents) + 1)..Len(dbEvents') :
                ~\E j \in DOMAIN dbEvents :
                    dbEvents[j].venueId = dbEvents'[i].venueId /\ dbEvents[j].hash = dbEvents'[i].hash
          /\ ~\E g \in ingested :
                g.run < runNo /\ g.venueId = venue.id /\ g.events = result.events ]_vars

(* a run is about to insert rows for raw events that an earlier run stored *)
(* for the same venue                                                      *)
C12_Reinserted ==
    /\ rpc = "insertEvents" /\ UniqueHashes(dbEvents \o NewRows)
    /\ \E g \in ingested : g.run < runNo /\ g.venueId = venue.id /\ g.events = result.events

(* the first two parts of C12 alone: no two rows of a venue share a hash *)
C12_UniquePerVenue ==
    \A i, j \in DOMAIN dbEvents :
        (dbEvents[i].venueId = dbEvents[j].venueId /\ dbEvents[i].hash = dbEvents[j].hash) => i = j

----------------------------------------------------------------------------
(* The venue plugins: scrape(page) of FoxCabaret, RickshawTheatre and       *)
(* RioTheatre, on a page that fetchDynamic opened and sent to the venue's   *)
(* url.  The site is what the page shows during the scrape: the entries of  *)
(* the listing page, how the visit of each detail page goes, and whether    *)
(* the listing page can be loaded again.                                    *)

MaxEntries   == 3     \* entries the listing page's extraction returns
DetailLimit  == 50    \* maxEvents = Math.min(dedupedEvents.length, 50)

(* the pages: about:blank, the venue's listing page, the detail page of href h *)
BlankPage     == [kind |-> "blank", href |-> 0]
ListingPage   == [kind |-> "listing", href |-> 0]
DetailPage(h) == [kind |-> "detail", href |-> h]

(* hrefs of detail pages; href 0 is the empty string *)
Hrefs == {1, 2}

Entry(h, title) == [href |-> h, title |-> title, dayNum |-> 1 + (h % 28)]

Entries(hrefs) == {Entry(h, t) : h \in hrefs, t \in {<<"A">>, <<"B", "b">>}}

Calendars(hrefs) == UNION { [1..n -> Entries(hrefs)] : n \in 0..MaxEntries }

(* more distinct hrefs than the Fox Cabaret loop visits, the last one twice *)
LongCalendar ==
    [k \in 1..(DetailLimit + 2) |->
        IF k <= DetailLimit + 1 THEN Entry(k, <<"A">>) ELSE Entry(DetailLimit + 1, <<"A">>)]

(* how the visit of a detail page goes: every await resolves, with or      *)
(* without a date on the page, or one of them rejects                      *)
Fates == {"ok", "no date", "goto rejects", "goto times out", "evaluate rejects", "goBack rejects"}

FatesOf(name) == IF name = "fox-cabaret" THEN Fates \ {"goBack rejects"} ELSE Fates \ {"no date"}

Sites(name) ==
    [calendar : Calendars(IF name = "rickshaw-theatre" THEN Hrefs \cup {0} ELSE Hrefs),
     fate : [Hrefs -> FatesOf(name)], listingDown : BOOLEAN]
    \cup (IF name = "fox-cabaret"
            THEN {[calendar |-> LongCalendar, fate |-> [h \in 1..(DetailLimit + 1) |-> "ok"],
                   listingDown |-> FALSE]}
            ELSE {})

PluginNames == {"fox-cabaret", "rickshaw-theatre", "rio-theatre"}

(* page.goto(url) done; page.goBack() done: the entry before, if there is one *)
Visit(nav, p) == Append(nav, p)
Back(nav)     == IF Len(nav) > 1 THEN SubSeq(nav, 1, Len(nav) - 1) ELSE nav
Here(nav)     == nav[Len(nav)]

(* if (!uniqueEvents.has(event.href)): the entries that are set in the Map *)
(* are those whose href no earlier entry has                                *)
SetInMap(items) == {i \in DOMAIN items : \A j \in 1..(i - 1) : items[j].href # items[i].href}

(* the values of a Map, in the order in which their keys were inserted *)
MapValues(items, keys) ==
    [k \in 1..Cardinality(keys) |->
        items[CHOOSE i \in keys : Cardinality({j \in keys : j <= i}) = k]]

(* Array.from(uniqueEvents.values()): the first entry of each href, in the *)
(* order in which the hrefs first appear                                   *)
Dedupe(items) == MapValues(items, SetInMap(items))

(* the header of the Fox Cabaret calendar, "January 2026", and the time of *)
(* an entry, "8:00 PM"                                                     *)
monthYear == <<Month(1), Num(2026)>>
EntryTime == <<Num(8), Colon, Num(0), PM>>

(* `${monthYear} ${event.dayNum} ${event.time}` *)
CalendarDateRaw(event) == monthYear \o <<Num(event.dayNum)>> \o EntryTime

(* `${dateText} ${timeText}` of a detail page: "Saturday, January 10, 2026 8:00 PM" *)
DetailDateRaw(event) ==
    <<Dow(6), Comma, Month(1), Num(event.dayNum), Comma, Num(2026)>> \o EntryTime

(* the date of an entry on the Rickshaw Theatre's listing: "Jan 10, 2026" *)
ListingDateRaw(event) == <<Mon(1), Num(event.dayNum), Comma, Num(2026)>>

(* the date of an entry on the Rio Theatre's calendar: "Saturday January 10 8:00 PM" *)
RioDateRaw(event) == <<Dow(6), Month(1), Num(event.dayNum)>> \o EntryTime

RawEventOf(event, dateRaw, doorsRaw) ==
    [title |-> event.title, dateRaw |-> dateRaw, doorsRaw |-> doorsRaw, url |-> event.href]

(* where the page is after the awaits of a detail visit up to the one that *)
(* rejects: a goto that rejects at once has not left the page              *)
AfterGoto(nav, h, fate) == IF fate = "goto rejects" THEN nav ELSE Visit(nav, DetailPage(h))

PluginStep(at, k, out, nav) ==
    plug' = [plug EXCEPT !.pc = at, !.i = k, !.enrichedEvents = out, !.nav = nav]

(* the default of config.delayMs, in milliseconds *)
DefaultDelayMs == 1500

(* a duration in milliseconds in whole units of model time, delayMs being *)
(* DefaultDelayMs                                                         *)
Units(ms) == (ms * delayMs) \div DefaultDelayMs

(* the time, cut at delayMs, that may lie between two requests that have a *)
(* page.waitForTimeout(ms) between them                                    *)
Elapsed(ms) == {e \in 0..delayMs : e >= Min(Units(ms), delayMs)}

(* the plugin sends a request on the page, by page.goto, page.goBack or a   *)
(* click, with no call of rateLimit(): the request comes some time after    *)
(* the request before it, at least the ms that the plugin waits in between *)
Request(ms) == \E e \in Elapsed(ms) : minGap' = Min(minGap, e)

NoRequest == UNCHANGED minGap

PluginUnchanged ==
    UNCHANGED <<scraperVars, worldVars, callVars, outVars, nCalls, lastCall, attemptLog,
                backoffLog, issuedAt, runVars, storeVars,
                today, systemTz, fn, fnIn, fnOut, flights>>

(* FoxCabaret.scrape up to the loop: the calendar is read and deduplicated *)
FoxExtract ==
    /\ plug.name = "fox-cabaret" /\ plug.pc = "extract"
    /\ plug' = [plug EXCEPT !.dedupedEvents = Dedupe(plug.site.calendar), !.pc = "loop", !.i = 1]
    /\ NoRequest
    /\ PluginUnchanged

(* one turn of the loop: the detail page is visited and a RawEvent pushed, *)
(* in the try block or in the catch block                                  *)
FoxDetail ==
    /\ plug.name = "fox-cabaret" /\ plug.pc = "loop"
    /\ plug.i <= Min(Len(plug.dedupedEvents), DetailLimit)
    /\ LET event == plug.dedupedEvents[plug.i]
           fate  == plug.site.fate[event.href]
           raw   == IF fate = "ok" THEN RawEventOf(event, DetailDateRaw(event), <<>>)
                    ELSE RawEventOf(event, CalendarDateRaw(event), <<>>)
       IN  PluginStep("loop", plug.i + 1, Append(plug.enrichedEvents, raw),
                      AfterGoto(plug.nav, event.href, fate))
    /\ Request(IF plug.i = 1 THEN 1500 ELSE 500)
    /\ PluginUnchanged

(* after the loop: page.goto of the calendar, then return enrichedEvents *)
FoxRestore ==
    /\ plug.name = "fox-cabaret" /\ plug.pc = "loop"
    /\ plug.i > Min(Len(plug.dedupedEvents), DetailLimit)
    /\ IF plug.site.listingDown
         THEN PluginStep("rejected", plug.i, plug.enrichedEvents, plug.nav)
         ELSE PluginStep("returned", plug.i, plug.enrichedEvents, Visit(plug.nav, ListingPage))
    /\ Request(IF plug.dedupedEvents = <<>> THEN 1500 ELSE 500)
    /\ PluginUnchanged

(* RickshawTheatre.scrape up to the loop: validEvents *)
RickshawExtract ==
    /\ plug.name = "rickshaw-theatre" /\ plug.pc = "extract"
    /\ plug' = [plug EXCEPT !.dedupedEvents = plug.site.calendar, !.pc = "loop", !.i = 1]
    /\ NoRequest
    /\ PluginUnchanged

(* fetchEventDetails: goto, waitForTimeout, evaluate, goBack; a goBack that *)
(* rejects may or may not have left the detail page                         *)
FetchEventDetailsNavs(nav, h, fate) ==
    IF fate = "goto rejects" THEN {nav}
    ELSE IF fate \in {"goto times out", "evaluate rejects"} THEN {Visit(nav, DetailPage(h))}
    ELSE IF fate = "goBack rejects" THEN {Visit(nav, DetailPage(h)), nav}
    ELSE {Back(Visit(nav, DetailPage(h)))}

(* one turn of the loop: fetchEventDetails for an event with a url, and the *)
(* event pushed with the details or, in the catch block, without            *)
RickshawDetail ==
    /\ plug.name = "rickshaw-theatre" /\ plug.pc = "loop"
    /\ plug.i <= Len(plug.dedupedEvents)
    /\ LET event == plug.dedupedEvents[plug.i]
           raw   == RawEventOf(event, ListingDateRaw(event), <<>>)
       IN  IF event.href # 0
             THEN \E nav \in FetchEventDetailsNavs(plug.nav, event.href, plug.site.fate[event.href]) :
                      PluginStep("loop", plug.i + 1, Append(plug.enrichedEvents, raw), nav)
             ELSE PluginStep("loop", plug.i + 1, Append(plug.enrichedEvents, raw), plug.nav)
    /\ IF plug.dedupedEvents[plug.i].href # 0 THEN Request(300) ELSE NoRequest
    /\ PluginUnchanged

(* after the loop: return enrichedEvents *)
RickshawReturn ==
    /\ plug.name = "rickshaw-theatre" /\ plug.pc = "loop"
    /\ plug.i > Len(plug.dedupedEvents)
    /\ PluginStep("returned", plug.i, plug.enrichedEvents, plug.nav)
    /\ NoRequest
    /\ PluginUnchanged

(* RioTheatre.scrape up to the loop: calendarItems and eventCount *)
RioExtract ==
    /\ plug.name = "rio-theatre" /\ plug.pc = "extract"
    /\ plug' = [plug EXCEPT !.dedupedEvents = plug.site.calendar, !.pc = "loop", !.i = 1]
    /\ NoRequest
    /\ PluginUnchanged

(* page.url().includes('calendar'): the Rio Theatre's calendar is at *)
(* /calendar/, its detail pages are not                               *)
UrlIncludesCalendar(p) == p.kind = "listing"

(* one turn of the loop: click, evaluate, push, goBack, waitForSelector;  *)
(* in the catch block the calendar is loaded again unless the page is on  *)
(* it, and when that goto rejects, scrape rejects                          *)
RioDetail ==
    /\ plug.name = "rio-theatre" /\ plug.pc = "loop"
    /\ plug.i <= Min(Len(plug.dedupedEvents), DetailLimit)
    /\ LET event  == plug.dedupedEvents[plug.i]
           fate   == plug.site.fate[event.href]
           raw    == RawEventOf(event, RioDateRaw(event), <<>>)
           pushed == IF fate \in {"ok", "goBack rejects"}
                       THEN Append(plug.enrichedEvents, raw) ELSE plug.enrichedEvents
       IN  \E nav \in FetchEventDetailsNavs(plug.nav, event.href, fate) :
              IF UrlIncludesCalendar(Here(nav))
                THEN PluginStep("loop", plug.i + 1, pushed, nav)
              ELSE IF plug.site.listingDown
                THEN PluginStep("rejected", plug.i, pushed, nav)
              ELSE PluginStep("loop", plug.i + 1, pushed, Visit(nav, ListingPage))
    /\ Request(IF plug.i = 1 THEN 1000 ELSE 500)
    /\ PluginUnchanged

(* after the loop: return enrichedEvents *)
RioReturn ==
    /\ plug.name = "rio-theatre" /\ plug.pc = "loop"
    /\ plug.i > Min(Len(plug.dedupedEvents), DetailLimit)
    /\ PluginStep("returned", plug.i, plug.enrichedEvents, plug.nav)
    /\ NoRequest
    /\ PluginUnchanged

(* the instant of the scrapes: 2026-01-05T20:00Z *)
PluginInstant == Wall(2026, 1, 5, 20, 0)

PluginStart ==
    /\ ScraperInit /\ entry = "plugin" /\ rpc = "plugin"
    /\ today = PluginInstant /\ systemTz = "UTC"
    /\ fn = "none" /\ fnIn = <<>> /\ fnOut = <<>> /\ flights = NoFlights
    /\ \E name \in PluginNames :
          \E site \in Sites(name) :
              plug = [name |-> name, site |-> site, pc |-> "extract", i |-> 0,
                      dedupedEvents |-> <<>>, enrichedEvents |-> <<>>,
                      nav |-> <<BlankPage, ListingPage>>]

PluginNext ==
    \/ FoxExtract
    \/ FoxDetail
    \/ FoxRestore
    \/ RickshawExtract
    \/ RickshawDetail
    \/ RickshawReturn
    \/ RioExtract
    \/ RioDetail
    \/ RioReturn

PluginSpec == PluginStart /\ [][PluginNext]_vars

----------------------------------------------------------------------------
(* the call of the function under study has returned *)
Applied(f) == fn = f /\ Len(fnOut) = Len(fnIn)

(* the primary date of a raw event parses at the instant of the call *)
DateParses(raw) == parseVancouverDate(systemTz, raw.dateRaw, today) # NoDate

(* C13: the output of normalizeEvents is, in order, one event for each raw   *)
(* event whose dateRaw parses, with the venueId given and the raw event's    *)
(* title and parsed date; raw events whose dateRaw does not parse are left   *)
(* out and the others are not affected; an event whose doorsRaw does not     *)
(* parse is kept, with doorsTime null.                                       *)
C13_NormalizeKeepsParsable ==
    Applied("normalizeEvents") =>
        LET arg  == fnIn[1]
            out  == fnOut[1]
            kept == SelectSeq(arg.rawEvents, DateParses)
        IN  /\ Len(out) = Len(kept)
            /\ \A i \in DOMAIN out :
                  /\ out[i].venueId = arg.venueId
                  /\ out[i].title = kept[i].title
                  /\ out[i].date = parseVancouverDate(systemTz, kept[i].dateRaw, today)
                  /\ parseVancouverDate(systemTz, kept[i].doorsRaw, today) = NoDate
                        => out[i].doorsTime = NoDate

(* a raw event whose date does not parse was dropped, and the one after it, *)
(* whose doors time does not parse, was kept without a doors time           *)
C13_Witness ==
    /\ Applied("normalizeEvents")
    /\ Len(fnIn[1].rawEvents) = 2
    /\ fnIn[1].rawEvents[1].dateRaw = <<Word>>
    /\ fnIn[1].rawEvents[2].doorsRaw = <<Word>>
    /\ Len(fnOut[1]) = 1
    /\ fnOut[1][1].title = fnIn[1].rawEvents[2].title
    /\ fnOut[1][1].doorsTime = NoDate

(* no format of DATE_FORMATS reads the preprocessed input at the instant of the call *)
MatchesNoFormat(raw) ==
    \A k \in DOMAIN DATE_FORMATS :
        ~FormatMatches(DATE_FORMATS[k], NormalizeInput(raw), Fields(LocalWall(systemTz, today)))

(* C14: parseVancouverDate returns null, and no date such as the current     *)
(* time, when its input is empty, is not a string, or matches none of the    *)
(* date formats after preprocessing; and every event normalizeEvents emits   *)
(* carries the date parsed from a raw event's dateRaw that did parse, never  *)
(* a substitute for a date that failed.                                      *)
C14_FailureIsNull ==
    /\ Applied("parseVancouverDate") =>
          LET raw == fnIn[1].raw
          IN  /\ (raw = <<>> \/ raw = NotAString \/ MatchesNoFormat(raw)) => fnOut[1] = NoDate
              /\ raw \in BadSamples => fnOut[1] = NoDate
    /\ Applied("normalizeEvents") =>
          \A i \in DOMAIN fnOut[1] :
              \E j \in DOMAIN fnIn[1].rawEvents :
                  /\ DateParses(fnIn[1].rawEvents[j])
                  /\ fnOut[1][i].title = fnIn[1].rawEvents[j].title
                  /\ fnOut[1][i].date =
                        parseVancouverDate(systemTz, fnIn[1].rawEvents[j].dateRaw, today)

(* "January 2026 10 8:00 PM", which no format reads, was parsed to null *)
C14_Witness ==
    /\ Applied("parseVancouverDate")
    /\ fnIn[1].raw = <<Month(1), Num(2026), Num(10), Num(8), Colon, Num(0), PM>>
    /\ MatchesNoFormat(fnIn[1].raw)
    /\ fnOut[1] = NoDate /\ fnOut[1] # today

(* the words of a title in lower case: what is left of it when letter case *)
(* and the amount and kind of white space are disregarded                  *)
RECURSIVE Words(_, _)
Words(str, word) ==
    IF str = <<>> THEN (IF word = <<>> THEN <<>> ELSE <<word>>)
    ELSE IF Head(str) \in WhiteSpace
      THEN (IF word = <<>> THEN <<>> ELSE <<word>>) \o Words(Tail(str), <<>>)
    ELSE Words(Tail(str), Append(word, LowerChar(Head(str))))

SameTitle(t1, t2) == Words(t1, <<>>) = Words(t2, <<>>)

(* the civil date in Vancouver at instant t *)
VancouverDay(t) == CivilFromDays((t + VancouverOffset(t)) \div 1440)

(* C15: two calls of generateEventHash with the same venueId, titles that    *)
(* normalize to the same and dates on the same civil day in Vancouver return *)
(* the same hash, whatever the times of day.                                 *)
C15_SameCivilDaySameHash ==
    (/\ Applied("generateEventHash")
     /\ fnIn[1].venueId = fnIn[2].venueId
     /\ SameTitle(fnIn[1].title, fnIn[2].title)
     /\ VancouverDay(fnIn[1].date) = VancouverDay(fnIn[2].date))
    => fnOut[1] = fnOut[2]

(* 14:00 and 19:30 of 2024-01-12 in Vancouver, one venue, one title: two hashes *)
C15_EveningHashesApart ==
    /\ Applied("generateEventHash")
    /\ fnIn[1].venueId = fnIn[2].venueId /\ fnIn[1].title = fnIn[2].title
    /\ fnIn[1].date = VancouverToInstant(Wall(2024, 1, 12, 14, 0))
    /\ fnIn[2].date = VancouverToInstant(Wall(2024, 1, 12, 19, 30))
    /\ fnOut[1] # fnOut[2]

(* C16: generateEventHash is a function of the venueId, the day of the date  *)
(* (the calendar day its ISO string shows) and the normalized title: calls   *)
(* that agree on the three return the same digest, so titles that differ     *)
(* only in letter case, in white space at the ends or in the length of runs  *)
(* of white space do; calls that differ in exactly one of the three hash     *)
(* different strings venueId|day|normalizedTitle.                            *)
C16_HashOfTriple ==
    Applied("generateEventHash") =>
        LET sameVenue == fnIn[1].venueId = fnIn[2].venueId
            sameDay   == ISODay(fnIn[1].date) = ISODay(fnIn[2].date)
            sameTitle == SameTitle(fnIn[1].title, fnIn[2].title)
        IN  /\ (sameVenue /\ sameDay /\ sameTitle) => fnOut[1] = fnOut[2]
            /\ (~sameVenue /\ sameDay /\ sameTitle) => fnOut[1] # fnOut[2]
            /\ (sameVenue /\ ~sameDay /\ sameTitle) => fnOut[1] # fnOut[2]
            /\ (sameVenue /\ sameDay /\ ~sameTitle) => fnOut[1] # fnOut[2]

(* "Ab" and "a  b"... : titles apart in case and white space only, one digest *)
C16_Witness ==
    /\ Applied("generateEventHash")
    /\ fnIn[1].venueId = fnIn[2].venueId /\ fnIn[1].date = fnIn[2].date
    /\ fnIn[1].title = <<" ", "a", "b", " ">> /\ fnIn[2].title = <<"A", "b">>
    /\ fnOut[1] = fnOut[2]
    /\ fnOut[1] = <<"r", "i", "o", "|", "2", "0", "2", "4", "-", "0", "1", "-", "1", "2",
                    "|", "a", "b">>

(* the civil date and time in Vancouver at instant t *)
VancouverFields(t) == Fields(t + VancouverOffset(t))

(* C17: a date string without a year is given the civil year of the          *)
(* reference instant when the date then lies at most 14 days before the      *)
(* reference instant, and the year after when it lies more than 14 days      *)
(* before it, never a later one; a date string with a year keeps its year.   *)
C17_YearInference ==
    (Applied("parseVancouverDate") /\ fnOut[1] # NoDate) =>
        LET raw  == fnIn[1].raw
            rv   == VancouverFields(fnOut[1])
            refY == VancouverFields(today).y
            inRefYear == VancouverToInstant(Wall(refY, rv.m, rv.d, rv.h, rv.mi))
        IN  /\ raw \in YearlessSamples =>
                  rv.y = IF inRefYear >= today - 14 * 1440 THEN refY ELSE refY + 1
            /\ \A s \in ExplicitSamples : raw = s.raw => rv.y = s.civil.y

(* at 2024-01-01T02:00Z, 18:00 of 2023-12-31 in Vancouver, in a process on *)
(* UTC, "Dec 31 11:00 PM" was read as 23:00 of 2024-12-31                  *)
C17_TonightNextYear ==
    /\ Applied("parseVancouverDate")
    /\ systemTz = "UTC" /\ today = Wall(2024, 1, 1, 2, 0)
    /\ fnIn[1].raw = <<Mon(12), Num(31), Num(11), Colon, Num(0), PM>>
    /\ fnOut[1] = VancouverToInstant(Wall(2024, 12, 31, 23, 0))

(* daylight-saving time in Vancouver, from the calendar: in 2024 from March *)
(* 10 to November 3, in 2025 from March 9 to November 2, the change at     *)
(* 02:00                                                                   *)
DstDays == [y \in {2024, 2025} |-> IF y = 2024 THEN [start |-> 10, end |-> 3]
                                   ELSE [start |-> 9, end |-> 2]]

InDaylightTime(c) ==
    \/ c.m \in 4..10
    \/ c.m = 3 /\ (c.d > DstDays[c.y].start \/ (c.d = DstDays[c.y].start /\ c.h >= 3))
    \/ c.m = 11 /\ (c.d < DstDays[c.y].end \/ (c.d = DstDays[c.y].end /\ c.h < 1))

(* C18: the instant parseVancouverDate returns for a civil date and time is  *)
(* that wall-clock time in Vancouver: the civil time plus 8 hours on a date  *)
(* in standard time, plus 7 hours on a date in daylight-saving time;         *)
(* "Friday, January 12, 2024 7:30 PM" gives 2024-01-13T03:30:00Z.            *)
C18_VancouverOffset ==
    Applied("parseVancouverDate") =>
        /\ \A s \in ExplicitSamples :
              fnIn[1].raw = s.raw =>
                 fnOut[1] = Wall(s.civil.y, s.civil.m, s.civil.d, s.civil.h, s.civil.mi)
                              + (IF InDaylightTime(s.civil) THEN 7 * 60 ELSE 8 * 60)
        /\ fnIn[1].raw = <<Dow(5), Comma, Month(1), Num(12), Comma, Num(2024), Num(7), Colon,
                           Num(30), PM>>
              => fnOut[1] = Wall(2024, 1, 13, 3, 30)

(* "Jul 4, 2024 8:00 PM", a date in daylight-saving time, read in a process *)
(* on UTC: 2024-07-05T03:00:00Z                                             *)
C18_Witness ==
    /\ Applied("parseVancouverDate") /\ systemTz = "UTC"
    /\ fnIn[1].raw = <<Mon(7), Num(4), Comma, Num(2024), Num(8), Colon, Num(0), PM>>
    /\ fnOut[1] = Wall(2024, 7, 5, 3, 0)

(* the hrefs of the entries of a list, and the first entry of an href *)
HrefsOf(items) == {items[k].href : k \in DOMAIN items}

FirstOf(items, h) ==
    items[CHOOSE k \in DOMAIN items :
              items[k].href = h /\ \A j \in 1..(k - 1) : items[j].href # h]

FoxReturned == plug.name = "fox-cabaret" /\ plug.pc = "returned"

(* C19: when FoxCabaret.scrape returns, there is for every href of the       *)
(* calendar extraction exactly one RawEvent, with the title of the href's    *)
(* first entry, and the RawEvents are in the order in which their hrefs      *)
(* first appear; and the normalized output holds exactly one event for each  *)
(* of these listings.                                                        *)
C19_OneEventPerHref ==
    FoxReturned =>
        LET items == plug.site.calendar
            out   == plug.enrichedEvents
        IN  /\ \A h \in HrefsOf(items) :
                  \E k \in DOMAIN out :
                      /\ out[k].url = h /\ out[k].title = FirstOf(items, h).title
                      /\ \A j \in DOMAIN out : out[j].url = h => j = k
            /\ \A j, k \in DOMAIN out :
                  j < k => \E a \in DOMAIN items :
                              /\ items[a].href = out[j].url
                              /\ \A b \in 1..a : items[b].href # out[k].url
            /\ Len(normalizeEvents(plug.name, out)) = Cardinality(HrefsOf(items))

(* href 1 is twice in the calendar and its detail page cannot be loaded: *)
(* one RawEvent, and no event in the normalized output                   *)
C19_ListingLost ==
    /\ FoxReturned
    /\ Len(plug.site.calendar) = 2
    /\ plug.site.calendar[1].href = 1 /\ plug.site.calendar[2].href = 1
    /\ plug.site.fate[1] = "goto rejects"
    /\ Len(plug.enrichedEvents) = 1
    /\ plug.enrichedEvents[1].dateRaw = CalendarDateRaw(plug.site.calendar[1])
    /\ normalizeEvents(plug.name, plug.enrichedEvents) = <<>>

(* C20: when the scrape of a plugin that visits detail pages returns, the *)
(* page is on the venue's listing page.                                   *)
C20_BackOnListing ==
    plug.pc = "returned" => Here(plug.nav) = ListingPage

(* the Rickshaw Theatre's scrape returned with the page on the detail page *)
(* of its last event, whose evaluate rejected                              *)
C20_LeftOnDetailPage ==
    /\ plug.name = "rickshaw-theatre" /\ plug.pc = "returned"
    /\ Len(plug.dedupedEvents) = 1 /\ plug.dedupedEvents[1].href # 0
    /\ plug.site.fate[plug.dedupedEvents[1].href] = "evaluate rejects"
    /\ Len(plug.enrichedEvents) = 1
    /\ Here(plug.nav) = DetailPage(plug.dedupedEvents[1].href)

(* the four types that have keywords, in declaration order *)
Categories == SubSeq(EventTypes, 1, 4)

(* the highest score of the four categories for a lower-cased title *)
TopScore(normalized) ==
    CHOOSE m \in 0..Len(KEYWORDS.music) :
        /\ \A k \in DOMAIN Categories : Score(normalized, Categories[k]) <= m
        /\ m = 0 \/ \E k \in DOMAIN Categories : Score(normalized, Categories[k]) = m

FreeIndicators == {<<"f", "r", "e", "e">>, <<"p", "w", "y", "c">>, <<"p", "a", "y", " ", "w", "h", "a", "t", " ", "y", "o", "u", " ", "c", "a", "n">>, <<"$", "0">>, <<"0">>}

(* the input, compared case-insensitively, is one of the free indicators *)
MatchesFreeIndicator(raw) == raw # NoString /\ Trim(ToLowerCase(raw)) \in FreeIndicators

(* C22: parsePrice returns {price: 0, isFree: true} exactly when the input,   *)
(* compared case-insensitively, is one of the free indicators free, pwyc,     *)
(* pay what you can, $0, 0; for every other input isFree is false, and absent *)
(* input gives {price: null, isFree: false}.                                  *)
C22_FreeExactlyOnIndicator ==
    Applied("parsePrice") =>
        /\ fnOut[1] = [price |-> 0, isFree |-> TRUE] <=> MatchesFreeIndicator(fnIn[1].raw)
        /\ ~MatchesFreeIndicator(fnIn[1].raw) => ~fnOut[1].isFree
        /\ fnIn[1].raw \in {NoString, <<>>} => fnOut[1] = [price |-> NoPrice, isFree |-> FALSE]

(* "$20 kids free" is none of the indicators and is parsed as free, price 0 *)
C22_PricedTextIsFree ==
    /\ Applied("parsePrice")
    /\ fnIn[1].raw = <<"$", "2", "0", " ", "k", "i", "d", "s", " ", "f", "r", "e", "e">>
    /\ ~MatchesFreeIndicator(fnIn[1].raw)
    /\ fnOut[1] = [price |-> 0, isFree |-> TRUE]

(* what C22 has right: the indicators and absent input *)
C22_IndicatorsAreFree ==
    Applied("parsePrice") =>
        /\ MatchesFreeIndicator(fnIn[1].raw) => fnOut[1] = [price |-> 0, isFree |-> TRUE]
        /\ fnIn[1].raw \in {NoString, <<>>} => fnOut[1] = [price |-> NoPrice, isFree |-> FALSE]

(* the last digit of the decimal part of the number whose integer part ends *)
(* at q: q itself when no "." and digit follow                              *)
LastDecimal(str, q) ==
    IF q + 2 <= Len(str) /\ str[q + 1] = "." /\ IsDigit(str[q + 2])
      THEN LastDigit(str, q + 2) ELSE q

(* 10 to the power n *)
RECURSIVE Pow10(_)
Pow10(n) == IF n = 0 THEN 1 ELSE 10 * Pow10(n - 1)

(* the cents of the number str[p..q] with the decimals str[q+2..r], rounded *)
CentsOfNumber(str, p, q, r) ==
    NumberOf(str, p, q) * 100
      + (IF r = q THEN 0
         ELSE (2 * 100 * NumberOf(str, q + 2, r) + Pow10(r - q - 1)) \div (2 * Pow10(r - q - 1)))

(* the first numeric token of the string, with its decimal part if any, in cents *)
FirstNumberCents(str) ==
    CentsOfNumber(str, FirstDigit(str), LastDigit(str, FirstDigit(str)),
                  LastDecimal(str, LastDigit(str, FirstDigit(str))))

(* C23: for a non-free input, parsePrice returns the first numeric token of   *)
(* the string, with its decimal part if any, as integer cents (the rounded    *)
(* dollars times 100), ignoring any later number; when the input has no       *)
(* numeric token it returns {price: null, isFree: false}.                     *)
C23_FirstNumberInCents ==
    (Applied("parsePrice") /\ fnIn[1].raw # NoString /\ ~fnOut[1].isFree) =>
        IF FirstDigit(fnIn[1].raw) = 0
          THEN fnOut[1] = [price |-> NoPrice, isFree |-> FALSE]
          ELSE fnOut[1] = [price |-> FirstNumberCents(fnIn[1].raw), isFree |-> FALSE]

(* "12.5" is parsed as 12 dollars: 1200 cents, not 1250 *)
C23_OneDecimalDropped ==
    /\ Applied("parsePrice")
    /\ fnIn[1].raw = <<"1", "2", ".", "5">>
    /\ FirstNumberCents(fnIn[1].raw) = 1250
    /\ fnOut[1] = [price |-> 1200, isFree |-> FALSE]

(* what C23 has right: numbers without decimals or with two, and ranges *)
C23_TwoDecimalsInCents ==
    /\ (Applied("parsePrice") /\ fnIn[1].raw = <<"$", "1", "5", "-", "$", "2", "5">>) => fnOut[1].price = 1500
    /\ (Applied("parsePrice") /\ fnIn[1].raw = <<"1", "2", ".", "5", "0">>) => fnOut[1].price = 1250
    /\ (Applied("parsePrice") /\ fnIn[1].raw = <<"$", "1", "5", ".", "0", "0">>) => fnOut[1].price = 1500
    /\ (Applied("parsePrice") /\ fnIn[1].raw = <<"T", "B", "A">>) => fnOut[1].price = NoPrice

(* C24: extractDoorsAndShow computes its two fields independently: doors is  *)
(* null when the text has no doors time and show is null when it has no      *)
(* show, music or start time; each field is what parseVancouverDate returns  *)
(* for the time written in its part of the text, so that two texts with the  *)
(* same doors part have the same doors whatever their show parts are, and    *)
(* the other way round; the call always returns.                             *)
C24_FieldsIndependent ==
    Applied("extractDoorsAndShow") =>
        /\ \A k \in DOMAIN fnIn :
              /\ fnIn[k].doors = <<>> => fnOut[k].doors = NoDate
              /\ fnIn[k].show = <<>> => fnOut[k].show = NoDate
              /\ fnOut[k].doors = parseVancouverDate(systemTz, fnIn[k].doors, today)
              /\ fnOut[k].show = parseVancouverDate(systemTz, fnIn[k].show, today)
        /\ fnIn[1].doors = fnIn[2].doors => fnOut[1].doors = fnOut[2].doors
        /\ fnIn[1].show = fnIn[2].show => fnOut[1].show = fnOut[2].show

(* "Doors 7 Show 8:00pm" and "Doors 7:00pm Show 8:00pm": the doors time of  *)
(* the first does not parse and is null, the show times are the same instant *)
C24_Witness ==
    /\ Applied("extractDoorsAndShow")
    /\ fnIn[1].raw = <<Doors, Num(7), Show, Num(8), Colon, Num(0), PM>>
    /\ fnIn[2].raw = <<Doors, Num(7), Colon, Num(0), PM, Show, Num(8), Colon, Num(0), PM>>
    /\ fnOut[1].doors = NoDate /\ fnOut[2].doors # NoDate
    /\ fnOut[1].show # NoDate /\ fnOut[1].show = fnOut[2].show
    /\ fnOut[2].show = fnOut[2].doors + 60

(* two fetch calls are past rateLimit() and have not settled *)
BothInFlight == \A c \in Flights : flights[c].pc = "request"

(* C25: when two fetch calls on one EthicalScraper are in flight at a time, *)
(* in every interleaving of their rate-limit steps any two consecutive      *)
(* requests are issued at least delayMs apart.                              *)
C25_SpacingUnderConcurrency ==
    minGap >= delayMs

(* two calls read the same watermark, slept side by side and issued their *)
(* requests less than delayMs apart                                       *)
C25_BothWokeTogether ==
    /\ BothInFlight
    /\ flights[1].read < flights[1].due /\ flights[2].read < flights[2].due
    /\ minGap < delayMs

(* C26: every request made during a run comes at least delayMs after the *)
(* request before it, the detail-page and return navigations that venue  *)
(* plugins perform on the page inside scrape() included.                 *)
C26_PluginRequestsSpaced ==
    minGap >= delayMs

(* the Rickshaw Theatre's scrape has returned after the visit of one detail *)
(* page and the way back, two requests less than delayMs apart              *)
C26_DetailVisitsUnspaced ==
    /\ plug.name = "rickshaw-theatre" /\ plug.pc = "returned"
    /\ Len(plug.dedupedEvents) = 1 /\ plug.dedupedEvents[1].href # 0
    /\ plug.site.fate[plug.dedupedEvents[1].href] = "ok"
    /\ Here(plug.nav) = ListingPage
    /\ lastRequestTime = 0
    /\ minGap < delayMs

(* the awaits of the GET handler on the database *)
DbAwaits == {"insertLog", "selectHashes", "insertEvents"}

(* Every await returns or throws: a call in progress on the scraper and the *)
(* handler go on whenever they can, and no await on the database is pending *)
(* for ever.                                                                *)
AwaitsReturn ==
    /\ WF_vars(ScraperStep)
    /\ WF_vars(RunInit) /\ WF_vars(RunLoop) /\ WF_vars(RunCollect) /\ WF_vars(RunFinally)
    /\ []<>(rpc \notin DbAwaits)

(* the runs of the GET handler in UTC whose awaits return or throw *)
LiveRunStart == RunStart /\ entry = "GET" /\ systemTz = "UTC"

LiveRunSpec == LiveRunStart /\ [][RunNext]_vars /\ AwaitsReturn

(* the timer of the sleep in progress is due after the horizon of the clock *)
OutOfTime == pc \in {"rateLimit", "backoff"} /\ now + sleepMs > MaxTime

(* the last call was a runScraper and has returned a ScrapeResult *)
Terminal ==
    /\ pc = "idle" /\ lastCall = "runScraper"
    /\ result.status \in {"success", "error", "skipped"}

CloseStep == lastCall' = "close" /\ nCalls' = nCalls + 1

(* a call of init() by the client, as one step *)
InitStep == lastCall' = "init" /\ nCalls' = nCalls + 1

(* fetchDynamic called by the client, at its context check *)
AtContextCheck == pc = "fetchDynamic" /\ caller = "client"

(* C28: a close() that returns leaves browser and context null and the      *)
(* browser and the context it found closed; a close() of a closed session   *)
(* changes nothing; fetchDynamic on a closed session throws the 'not        *)
(* initialized' error, opens no page and leaves the watermark alone; an     *)
(* init() that returns leaves an open context in an open browser, on which  *)
(* fetchDynamic goes on to the rate limit.                                  *)
C28_CloseResetsSession ==
    [][/\ (CloseStep /\ thrown' = NoError) =>
            /\ browser' = NULL /\ context' = NULL
            /\ browser # NULL => browsers'[browser] = "closed"
            /\ context # NULL => contexts'[context].state = "closed"
       /\ (CloseStep /\ browser = NULL /\ context = NULL) =>
            /\ thrown' = NoError
            /\ UNCHANGED <<scraperVars, worldVars>>
       /\ (AtContextCheck /\ context = NULL) =>
            /\ thrown' = NotInitializedMsg /\ pc' = "idle"
            /\ UNCHANGED <<pages, lastRequestTime, issuedAt>>
       /\ (InitStep /\ thrown' = NoError) =>
            /\ browser' # NULL /\ browsers'[browser'] = "open"
            /\ context' # NULL /\ contexts'[context'].state = "open"
       /\ (AtContextCheck /\ context # NULL) =>
            /\ thrown' = NoError /\ pc' \in {"rateLimit", "newPage"}]_vars

(* fetchDynamic has thrown 'not initialized' on a session that init() had   *)
(* opened and close() has closed                                            *)
C28_FetchAfterClose ==
    /\ pc = "idle" /\ lastCall = "fetchDynamic" /\ thrown = NotInitializedMsg
    /\ browser = NULL /\ context = NULL
    /\ browsers = <<"closed">>
    /\ Len(contexts) = 1 /\ contexts[1].state = "closed"

(* the formats of DATE_FORMATS that hold a time of day and nothing else *)
TimeOnlyFormats == {k \in DOMAIN DATE_FORMATS : ~HasField(DATE_FORMATS[k], {"d", "dd"})}

(* doorsRaw holds only a time of day, as parseVancouverDate reads it at the *)
(* instant of the call                                                      *)
TimeOnly(doorsRaw) ==
    /\ doorsRaw # <<>> /\ doorsRaw # NotAString
    /\ FirstFormat(NormalizeInput(doorsRaw), Fields(LocalWall(systemTz, today)))
          \in TimeOnlyFormats

(* the civil day of the run, on the clocks of the process *)
RunDay == CivilFromDays(LocalWall(systemTz, today) \div 1440)

AppliedBoth == fn = "normalizeEvents, route and script" /\ Len(fnOut) = 2

(* the fields of an event that the two implementations are to agree on *)
Shared(e) ==
    [venueId |-> e.venueId, title |-> e.title, date |-> e.date, doorsTime |-> e.doorsTime,
     url |-> e.url, price |-> e.price, isFree |-> e.isFree, eventType |-> e.eventType,
     hash |-> e.hash]

(* C30: on the same venueId and raw events at the same instant, the         *)
(* normalizeEvents of the API route and the one of the CLI script return    *)
(* lists of the same length whose events agree, one by one, on venueId,     *)
(* title, date, doorsTime, url, price, isFree, eventType and hash.          *)
C30_RouteAndScriptAgree ==
    AppliedBoth =>
        /\ Len(fnOut[1]) = Len(fnOut[2])
        /\ \A i \in DOMAIN fnOut[1] : Shared(fnOut[1][i]) = Shared(fnOut[2][i])

(* both kept the second of two raw events, which has no url and is free,    *)
(* and dropped the first                                                    *)
C30_Witness ==
    /\ AppliedBoth
    /\ Len(fnIn[1].rawEvents) = 2
    /\ fnIn[1].rawEvents[2].url = <<>>
    /\ Len(fnOut[1]) = 1 /\ Len(fnOut[2]) = 1
    /\ fnOut[2][1].url = NoUrl /\ fnOut[2][1].isFree
    /\ fnOut[1][1].doorsTime # NoDate
    /\ fnOut[2][1].title = fnIn[1].rawEvents[2].title

====
